---- MODULE Spec2Model ----
(***************************************************************************)
(* Model of the inline markup transformer of the Foundry JSON reader       *)
(* (src/utils/foundryParser.ts): resolvePath, localize, slugToPascalCase   *)
(* and processFoundryTags with its recursive Localize stage.               *)
(*                                                                         *)
(* A string is a sequence of tokens.  A token is either one of the         *)
(* characters the code looks at ("[", "]", "{", "}", "|", ":", ".", "-",   *)
(* " ", newline), one of the keywords its regular expressions name         *)
(* ("@UUID[", "JournalEntry.", ".Item.", ...) or an opaque word.  The      *)
(* regular expressions and index scans of the code are computed over the   *)
(* token sequence exactly as the code computes them over characters.       *)
(***************************************************************************)
EXTENDS Integers, Sequences, FiniteSets, TLC

(***************************************************************************)
(* Strings                                                                 *)
(***************************************************************************)
NL == "\n"

WhiteToks == {" ", NL}

\* tokens whose text ends in the character '['
OpenBracketToks ==
    {"[", "@Localize[", "@Compendium[", "@UUID[", "@Trait[", "@Traits[",
     "@Condition[", "@Damage[", "@Check["}

Min(S) == CHOOSE x \in S : \A y \in S : x <= y

\* JavaScript's s.substring(a) and s.substring(a, b), on 1-based positions:
\* Sub(s, a, b) holds positions a..b of s.
Sub(s, a, b) == IF a > b THEN << >> ELSE SubSeq(s, a, b)

From(s, a) == Sub(s, a, Len(s))

\* '.' of a regular expression matches any character but a line terminator
NoNL(s, a, b) == \A i \in a..b : s[i] # NL

RECURSIVE trim(_)
trim(s) ==
    IF s = << >> THEN s
    ELSE IF Head(s) \in WhiteToks THEN trim(Tail(s))
    ELSE IF s[Len(s)] \in WhiteToks THEN trim(Sub(s, 1, Len(s) - 1))
    ELSE s

\* first letter of a word in upper case, and a word in lower case
UpperFirstTok(t) ==
    CASE t = "fire" -> "Fire"
      [] t = "resistance" -> "Resistance"
      [] t = "range" -> "Range"
      [] t = "increment" -> "Increment"
      [] t = "reflex" -> "Reflex"
      [] t = "fortitude" -> "Fortitude"
      [] t = "will" -> "Will"
      [] t = "perception" -> "Perception"
      [] t = "bar" -> "Bar"
      [] t = "a" -> "A"
      [] t = "b" -> "B"
      [] t = "athletics" -> "Athletics"
      [] OTHER -> t

LowerTok(t) ==
    CASE t = "Reflex" -> "reflex"
      [] t = "Fortitude" -> "fortitude"
      [] t = "Will" -> "will"
      [] t = "Perception" -> "perception"
      [] t = "Fire" -> "fire"
      [] t = "Resistance" -> "resistance"
      [] OTHER -> t

\* a string left as written
asWritten(s) == s

\* str.charAt(0).toUpperCase() + str.slice(1)
capitalize(s) == IF s = << >> THEN s ELSE <<UpperFirstTok(s[1])>> \o Tail(s)

toLowerCase(s) == [i \in 1..Len(s) |-> LowerTok(s[i])]

\* str.split(sep) for a one-character separator: always at least one part
RECURSIVE split(_, _)
split(s, sep) ==
    IF \A i \in 1..Len(s) : s[i] # sep THEN <<s>>
    ELSE LET i == Min({n \in 1..Len(s) : s[n] = sep})
         IN  <<Sub(s, 1, i - 1)>> \o split(From(s, i + 1), sep)

RECURSIVE join(_)
join(parts) == IF parts = << >> THEN << >> ELSE Head(parts) \o join(Tail(parts))

strong(s) == <<"<strong>">> \o s \o <<"</strong>">>

em(s) == <<"<em>">> \o s \o <<"</em>">>

\* <a href="#" class="internal-journal-link" data-<attr>="<val>"><text></a>
anchor(attr, val, text) == <<attr>> \o val \o <<"'>">> \o text \o <<"</a>">>

DataPageId == "<a href='#' class='internal-journal-link' data-page-id='"
DataActorName == "<a href='#' class='internal-journal-link' data-actor-name='"
DataItemName == "<a href='#' class='internal-journal-link' data-item-name='"

(***************************************************************************)
(* JSON values: [t |-> type, v |-> payload].  A string's payload is its    *)
(* token sequence, a number's is its decimal string, a mapping's is a      *)
(* function from property names (token sequences) to values.               *)
(***************************************************************************)
Null == [t |-> "null", v |-> << >>]
Undefined == [t |-> "undefined", v |-> << >>]
Str(s) == [t |-> "string", v |-> s]
Num(s) == [t |-> "number", v |-> s]
Bool(b) == [t |-> "boolean", v |-> b]
Obj(f) == [t |-> "object", v |-> f]
Arr(q) == [t |-> "array", v |-> q]

\* a test that lets every value pass
alwaysTruthy(x) == TRUE

\* JavaScript truthiness of a value
truthy(x) ==
    CASE x.t \in {"null", "undefined"} -> FALSE
      [] x.t = "string" -> x.v # << >>
      [] x.t = "number" -> x.v \notin {<<"0">>, <<"NaN">>}
      [] x.t = "boolean" -> x.v
      [] OTHER -> TRUE

IndexTok(i) == CASE i = 0 -> "0" [] i = 1 -> "1" [] i = 2 -> "2" [] OTHER -> "3"

\* Object.prototype.hasOwnProperty.call(current, part) and current[part]
hasOwn(cur, part) ==
    CASE cur.t = "object" -> part \in DOMAIN cur.v
      [] cur.t = "array" ->
           part = <<"length">> \/ \E i \in 1..Len(cur.v) : part = <<IndexTok(i - 1)>>
      [] OTHER -> FALSE

getProp(cur, part) ==
    CASE cur.t = "object" -> cur.v[part]
      [] part = <<"length">> -> Num(<<IndexTok(Len(cur.v))>>)
      [] OTHER -> cur.v[CHOOSE i \in 1..Len(cur.v) : part = <<IndexTok(i - 1)>>]

RECURSIVE walk(_, _)
walk(cur, parts) ==
    IF parts = << >> THEN cur
    ELSE IF cur.t \notin {"object", "array"} \/ ~hasOwn(cur, Head(parts))
         THEN Undefined
         ELSE walk(getProp(cur, Head(parts)), Tail(parts))

resolvePath(object, path) ==
    IF ~truthy(object) THEN Undefined
    ELSE LET current == walk(object, split(path, "."))
         IN  CASE current.t = "string" -> current
               [] current.t = "number" -> Str(current.v)
               [] OTHER -> Undefined

\* String.prototype.replace with a replacement string: $& stands for the
\* text matched and $$ for a dollar sign
expandReplacement(replacement, matched) ==
    join([i \in 1..Len(replacement) |->
             CASE replacement[i] = "$&" -> matched
               [] replacement[i] = "$$" -> <<"$">>
               [] OTHER -> <<replacement[i]>>])

\* translation.replace(new RegExp(`{${k}}`, 'g'), String(v)) for a name k
\* without special characters of regular expressions
RECURSIVE replacePlaceholder(_, _, _)
replacePlaceholder(translation, k, v) ==
    LET pattern == <<"{">> \o k \o <<"}">>
        at == {i \in 1..(Len(translation) - Len(pattern) + 1) :
                  Sub(translation, i, i + Len(pattern) - 1) = pattern}
    IN  IF at = {} THEN translation
        ELSE Sub(translation, 1, Min(at) - 1)
                 \o expandReplacement(v, pattern)
                 \o replacePlaceholder(From(translation, Min(at) + Len(pattern)), k, v)

\* Object.entries(replacements).forEach(...): the entries in their order,
\* each a pair of a name and a value (a string or a number)
RECURSIVE substitute(_, _)
substitute(translation, entries) ==
    IF entries = << >> THEN translation
    ELSE substitute(replacePlaceholder(translation, Head(entries)[1], Head(entries)[2].v),
                    Tail(entries))

\* a localize that derives the fallback from the key whenever nothing is found
localizeWithDerivedFallback(localizationData, key, replacements) ==
    LET derived == IF \E i \in 1..Len(key) : key[i] = "."
                   THEN LET parts == split(key, ".") IN capitalize(parts[Len(parts)])
                   ELSE key
    IN  IF ~truthy(localizationData) THEN derived
        ELSE LET translation == resolvePath(localizationData, key)
             IN  IF ~truthy(translation) THEN derived
                 ELSE IF ~truthy(replacements) THEN translation.v
                 ELSE substitute(translation.v, replacements.v)

\* localize(localizationData, key, replacements): replacements is Undefined
\* or the list of the entries of the object given
localizeWith(localizationData, key, replacements) ==
    IF ~truthy(localizationData)
    THEN IF \E i \in 1..Len(key) : key[i] = "."
         THEN LET parts == split(key, ".") IN capitalize(parts[Len(parts)])
         ELSE key
    ELSE LET translation == resolvePath(localizationData, key)
         IN  IF ~truthy(translation) THEN key
             ELSE IF ~truthy(replacements) THEN translation.v
             ELSE substitute(translation.v, replacements.v)

\* localize(localizationData, key) without replacements
localize(localizationData, key) == localizeWith(localizationData, key, Undefined)

RECURSIVE mapCapitalize(_)
mapCapitalize(parts) ==
    IF parts = << >> THEN << >>
    ELSE <<capitalize(Head(parts))>> \o mapCapitalize(Tail(parts))

slugToPascalCase(slug) == join(mapCapitalize(split(slug, "-")))

(***************************************************************************)
(* Regular expressions of processFoundryTags.  A match is a record: s and  *)
(* e are its first and last position, g1 and g2 its capture groups, has2   *)
(* tells whether the second group took part in the match.  A lazy '.*?'    *)
(* followed by a literal takes the first place where the rest of the       *)
(* pattern can still match, which is the least position in each case.      *)
(***************************************************************************)
NoMatch == [ok |-> FALSE, s |-> 0, e |-> 0, g1 |-> << >>, g2 |-> << >>, has2 |-> FALSE]

Match(s, e, g1, g2, has2) == [ok |-> TRUE, s |-> s, e |-> e, g1 |-> g1, g2 |-> g2, has2 |-> has2]

\* positions k >= a of a '}' that '(.*?)\}' can reach from a
CloseBraces(text, a) == {k \in a..Len(text) : text[k] = "}" /\ NoNL(text, a, k - 1)}

\* positions j >= a of a ']' followed by '{' that '.*?\]\{(.*?)\}' can reach from a
CloseOpen(text, a) ==
    {j \in a..(Len(text) - 1) :
        /\ text[j] = "]" /\ text[j + 1] = "{"
        /\ NoNL(text, a, j - 1)
        /\ CloseBraces(text, j + 2) # {}}

\* <open>.*?\]\{(.*?)\} at position i
LabelledAt(text, i, open) ==
    IF text[i] = open /\ CloseOpen(text, i + 1) # {}
    THEN LET j == Min(CloseOpen(text, i + 1))
             k == Min(CloseBraces(text, j + 2))
         IN  Match(i, k, Sub(text, j + 2, k - 1), << >>, FALSE)
    ELSE NoMatch

\* /@Localize\[(.*?)\]/ at position i
LocalizeAt(text, i) ==
    LET ks == {k \in (i + 1)..Len(text) : text[k] = "]" /\ NoNL(text, i + 1, k - 1)}
    IN  IF text[i] = "@Localize[" /\ ks # {}
        THEN Match(i, Min(ks), Sub(text, i + 1, Min(ks) - 1), << >>, FALSE)
        ELSE NoMatch

\* /@Compendium\[.*?\]\{(.*?)\}/ at position i
CompendiumAt(text, i) == LabelledAt(text, i, "@Compendium[")

\* /@UUID\[JournalEntry\..*?\.JournalEntryPage\.(.*?)\]\{(.*?)\}/ at position i
UUIDPageAt(text, i) ==
    LET ms == {m \in (i + 2)..Len(text) :
                  /\ text[m] = ".JournalEntryPage."
                  /\ NoNL(text, i + 2, m - 1)
                  /\ CloseOpen(text, m + 1) # {}}
    IN  IF text[i] = "@UUID[" /\ i < Len(text) /\ text[i + 1] = "JournalEntry." /\ ms # {}
        THEN LET m == Min(ms)
                 j == Min(CloseOpen(text, m + 1))
                 k == Min(CloseBraces(text, j + 2))
             IN  Match(i, k, Sub(text, m + 1, j - 1), Sub(text, j + 2, k - 1), TRUE)
        ELSE NoMatch

\* an actor rule that accepts 'Actor.' anywhere in the locator:
\* /@UUID\[.*?Actor\..*?\]\{(.*?)\}/
UUIDActorAnywhereAt(text, i) ==
    LET ms == {m \in (i + 1)..Len(text) :
                  /\ text[m] = "Actor."
                  /\ NoNL(text, i + 1, m - 1)
                  /\ CloseOpen(text, m + 1) # {}}
    IN  IF text[i] = "@UUID[" /\ ms # {}
        THEN LET j == Min(CloseOpen(text, Min(ms) + 1))
                 k == Min(CloseBraces(text, j + 2))
             IN  Match(i, k, Sub(text, j + 2, k - 1), << >>, FALSE)
        ELSE NoMatch

\* /@UUID\[Actor\..*?\]\{(.*?)\}/ at position i
UUIDActorAt(text, i) ==
    IF text[i] = "@UUID[" /\ i < Len(text) /\ text[i + 1] = "Actor."
       /\ CloseOpen(text, i + 2) # {}
    THEN LET j == Min(CloseOpen(text, i + 2))
             k == Min(CloseBraces(text, j + 2))
         IN  Match(i, k, Sub(text, j + 2, k - 1), << >>, FALSE)
    ELSE NoMatch

\* /@UUID\[.*?\.Item\..*?\]\{(.*?)\}/ at position i
UUIDItemAt(text, i) ==
    LET ms == {m \in (i + 1)..Len(text) :
                  /\ text[m] = ".Item."
                  /\ NoNL(text, i + 1, m - 1)
                  /\ CloseOpen(text, m + 1) # {}}
    IN  IF text[i] = "@UUID[" /\ ms # {}
        THEN LET j == Min(CloseOpen(text, Min(ms) + 1))
                 k == Min(CloseBraces(text, j + 2))
             IN  Match(i, k, Sub(text, j + 2, k - 1), << >>, FALSE)
        ELSE NoMatch

\* /@UUID\[.*?\]\{(.*?)\}/ at position i
UUIDOtherAt(text, i) == LabelledAt(text, i, "@UUID[")

\* /@Traits?\[([^\]]*)\](?:\{(.*?)\})?/ at position i
TraitAt(text, i) ==
    LET js == {j \in (i + 1)..Len(text) : text[j] = "]"}
    IN  IF text[i] \in {"@Trait[", "@Traits["} /\ js # {}
        THEN LET j == Min(js)
                 labelled == /\ j < Len(text) /\ text[j + 1] = "{"
                             /\ CloseBraces(text, j + 2) # {}
                 k == Min(CloseBraces(text, j + 2))
             IN  IF labelled
                 THEN Match(i, k, Sub(text, i + 1, j - 1), Sub(text, j + 2, k - 1), TRUE)
                 ELSE Match(i, j, Sub(text, i + 1, j - 1), << >>, FALSE)
        ELSE NoMatch

\* /@Condition\[.*?\]\{(.*?)\}/ at position i
ConditionAt(text, i) == LabelledAt(text, i, "@Condition[")

MatchAt(rule, text, i) ==
    CASE rule = "Localize" -> LocalizeAt(text, i)
      [] rule = "Compendium" -> CompendiumAt(text, i)
      [] rule = "UUIDPage" -> UUIDPageAt(text, i)
      [] rule = "UUIDActor" -> UUIDActorAt(text, i)
      [] rule = "UUIDItem" -> UUIDItemAt(text, i)
      [] rule = "UUIDOther" -> UUIDOtherAt(text, i)
      [] rule = "Trait" -> TraitAt(text, i)
      [] rule = "Condition" -> ConditionAt(text, i)

\* the leftmost match of the rule's expression that starts at from or later
NextMatch(rule, text, from) ==
    LET starts == {i \in from..Len(text) : MatchAt(rule, text, i).ok}
    IN  IF starts = {} THEN NoMatch ELSE MatchAt(rule, text, Min(starts))

(***************************************************************************)
(* The rewrite rules of processFoundryTags that are one String.replace     *)
(* with a global regular expression.                                       *)
(***************************************************************************)
WholeTagToks == {"<b>", "</b>", "<p>", "</p>", "<strong>", "</strong>", "<em>", "</em>"}

Quote == "\""

\* description.replace(/<[^>]*>/g, '').replace(/"/g, '&quot;')
RECURSIVE sanitize(_)
sanitize(s) ==
    IF s = << >> THEN << >>
    ELSE IF Head(s) \in WholeTagToks THEN sanitize(Tail(s))
    ELSE IF Head(s) = Quote THEN <<"&quot;">> \o sanitize(Tail(s))
    ELSE <<Head(s)>> \o sanitize(Tail(s))

TraitKey(pascalKey) == <<"PF2E", ".", "Trait">> \o pascalKey

TraitDescriptionKey(pascalKey) == <<"PF2E", ".", "TraitDescription">> \o pascalKey

\* label ?? localize(localizationData, `PF2E.Trait${pascalKey}`) ?? pascalKey:
\* localize always returns a string, so the last alternative is never taken
traitDisplayLabel(m, localizationData) ==
    IF m.has2 THEN m.g2
    ELSE localize(localizationData, TraitKey(slugToPascalCase(m.g1)))

traitDescription(m, localizationData) ==
    LET found == resolvePath(localizationData, TraitDescriptionKey(slugToPascalCase(m.g1)))
    IN  IF truthy(localizationData) /\ truthy(found) THEN found.v ELSE << >>

traitReplacement(m, localizationData) ==
    <<"<span class='trait-tooltip' title='">>
        \o sanitize(traitDescription(m, localizationData))
        \o <<"'><code class='trait-code'>">>
        \o traitDisplayLabel(m, localizationData)
        \o <<"</code></span>">>

\* a page rule that does not look the page id up
uuidPageReplacementUnchecked(m, pageIdSet) == anchor(DataPageId, m.g1, m.g2)

uuidPageReplacement(m, pageIdSet) ==
    IF Str(m.g1) \in pageIdSet THEN anchor(DataPageId, m.g1, m.g2) ELSE strong(m.g2)

uuidActorReplacement(m) == anchor(DataActorName, m.g1, m.g1)

uuidItemReplacement(m) == anchor(DataItemName, m.g1, m.g1)

Replacement(rule, m, pageIdSet, localizationData) ==
    CASE rule = "Compendium" -> m.g1
      [] rule = "UUIDPage" -> uuidPageReplacement(m, pageIdSet)
      [] rule = "UUIDActor" -> uuidActorReplacement(m)
      [] rule = "UUIDItem" -> uuidItemReplacement(m)
      [] rule = "UUIDOther" -> strong(m.g1)
      [] rule = "Trait" -> traitReplacement(m, localizationData)
      [] rule = "Condition" -> em(m.g1)

\* text.replace(<global expression of the rule>, <replacement>), scanning from `from`
RECURSIVE replaceFrom(_, _, _, _, _)
replaceFrom(rule, text, from, pageIdSet, localizationData) ==
    LET m == NextMatch(rule, text, from)
    IN  IF ~m.ok THEN From(text, from)
        ELSE Sub(text, from, m.s - 1)
                 \o Replacement(rule, m, pageIdSet, localizationData)
                 \o replaceFrom(rule, text, m.e + 1, pageIdSet, localizationData)

replaceAll(rule, text, pageIdSet, localizationData) ==
    replaceFrom(rule, text, 1, pageIdSet, localizationData)

(***************************************************************************)
(* parseAndReplace: the bracket-depth scan of the Damage and Check rules.  *)
(* Positions are 1-based: position p here is index p - 1 of the code.      *)
(***************************************************************************)
TagPrefix(tag) == IF tag = "Damage" THEN "@Damage[" ELSE "@Check["

\* text.indexOf(tagPrefix, from): 0 when there is none
indexOfFrom(text, tok, from) ==
    LET is == {i \in from..Len(text) : text[i] = tok}
    IN  IF is = {} THEN 0 ELSE Min(is)

\* the for loop over i with bracketLevel: the position where the level
\* comes back to zero, 0 when the text ends first
RECURSIVE closingIndex(_, _, _, _, _)
closingIndex(text, i, level, up, down) ==
    IF i > Len(text) THEN 0
    ELSE IF text[i] \in up THEN closingIndex(text, i + 1, level + 1, up, down)
    ELSE IF text[i] = down
         THEN IF level - 1 = 0 THEN i
              ELSE closingIndex(text, i + 1, level - 1, up, down)
    ELSE closingIndex(text, i + 1, level, up, down)

\* an argument that ends at the first ']', whatever the depth
contentEndAtFirstBracket(text, contentStartIndex) == indexOfFrom(text, "]", contentStartIndex)

contentEnd(text, contentStartIndex) ==
    closingIndex(text, contentStartIndex, 1, OpenBracketToks, "]")

\* a scan that takes no label: it resumes right after the closing bracket
parseLabelNever(text, contentEndIndex) ==
    [found |-> FALSE, label |-> << >>, finalEndIndex |-> contentEndIndex + 1]

\* the optional '{...}' label after the closing bracket at contentEndIndex:
\* [found, label, finalEndIndex], finalEndIndex the first position not consumed
parseLabel(text, contentEndIndex) ==
    LET finalEndIndex == contentEndIndex + 1
        rest == trim(From(text, finalEndIndex))
        none == [found |-> FALSE, label |-> << >>, finalEndIndex |-> finalEndIndex]
    IN  IF rest # << >> /\ Head(rest) = "{"
        THEN LET labelStartIndex == indexOfFrom(text, "{", finalEndIndex) + 1
                 labelEndIndex == closingIndex(text, labelStartIndex, 1, {"{"}, "}")
             IN  IF labelEndIndex # 0
                 THEN [found |-> TRUE,
                       label |-> Sub(text, labelStartIndex, labelEndIndex - 1),
                       finalEndIndex |-> labelEndIndex + 1]
                 ELSE none
        ELSE none

SaveTypes == {<<"reflex">>, <<"fortitude">>, <<"will">>}

\* tokens that begin with an optional sign and a digit: parseInt gives a number
IntLeadToks == {"0", "1", "2", "5", "15", "20", "2d6", "1d4", "-5"}

parsesAsInt(s) == s # << >> /\ s[1] \in IntLeadToks

\* checkValues[k], undefined (here the empty string, equally falsy) when absent
field(checkValues, k) == IF k \in DOMAIN checkValues THEN checkValues[k] ELSE << >>

put(checkValues, k, val) ==
    [x \in DOMAIN checkValues \cup {k} |-> IF x = k THEN val ELSE checkValues[x]]

\* a callback in which a bare token overwrites a type or dc already set
checkPartOverwriting(checkValues, part) ==
    IF \E i \in 1..Len(part) : part[i] = ":"
    THEN LET kv == split(part, ":")
         IN  put(checkValues, trim(kv[1]), trim(kv[2]))
    ELSE LET trimmedPart == toLowerCase(trim(part))
         IN  IF trimmedPart \in SaveTypes
             THEN put(checkValues, <<"type">>, trimmedPart)
             ELSE IF parsesAsInt(trimmedPart)
                  THEN put(checkValues, <<"dc">>, trimmedPart)
                  ELSE checkValues

\* one call of the parts.forEach callback
checkPart(checkValues, part) ==
    IF \E i \in 1..Len(part) : part[i] = ":"
    THEN LET kv == split(part, ":")
         IN  put(checkValues, trim(kv[1]), trim(kv[2]))
    ELSE LET trimmedPart == toLowerCase(trim(part))
         IN  IF trimmedPart \in SaveTypes /\ field(checkValues, <<"type">>) = << >>
             THEN put(checkValues, <<"type">>, trimmedPart)
             ELSE IF parsesAsInt(trimmedPart) /\ field(checkValues, <<"dc">>) = << >>
                  THEN put(checkValues, <<"dc">>, trimmedPart)
                  ELSE checkValues

RECURSIVE checkParts(_, _)
checkParts(checkValues, parts) ==
    IF parts = << >> THEN checkValues
    ELSE checkParts(checkPart(checkValues, Head(parts)), Tail(parts))

EmptyValues == [x \in {} |-> << >>]

\* a transformer that writes the Basic prefix whenever a basic field is given
checkTransformerBasicIfGiven(c, hasLabel, label) ==
    LET checkValues == checkParts(EmptyValues, split(c, "|"))
        type == field(checkValues, <<"type">>)
        dc == field(checkValues, <<"dc">>)
    IN  IF type # << >> /\ dc # << >>
        THEN strong((IF field(checkValues, <<"basic">>) # << >>
                     THEN <<"Basic_">> ELSE << >>)
                    \o capitalize(type) \o <<"_DC">> \o dc)
        ELSE strong(IF hasLabel /\ label # << >> THEN label ELSE c)

checkTransformer(c, hasLabel, label) ==
    LET checkValues == checkParts(EmptyValues, split(c, "|"))
        type == field(checkValues, <<"type">>)
        dc == field(checkValues, <<"dc">>)
    IN  IF type # << >> /\ dc # << >>
        THEN strong((IF field(checkValues, <<"basic">>) = <<"true">>
                     THEN <<"Basic_">> ELSE << >>)
                    \o capitalize(type) \o <<"_DC">> \o dc)
        ELSE strong(IF hasLabel /\ label # << >> THEN label ELSE c)

damageTransformer(c, hasLabel, label) == strong(c)

transformer(tag, c, hasLabel, label) ==
    IF tag = "Damage" THEN damageTransformer(c, hasLabel, label)
    ELSE checkTransformer(c, hasLabel, label)

\* a scan that gives up at an opening token without closing bracket
resumeAtEnd(currentIndex, contentStartIndex, textLength) == textLength + 1

\* a scan that resumes at the opening token it could not close
resumeAtOpening(currentIndex, contentStartIndex, textLength) == currentIndex

\* where the scan resumes after an opening token that has no closing bracket
resumeUnterminated(currentIndex, contentStartIndex, textLength) == contentStartIndex

\* a scan that forgets the text after the last directive
remainderDropped(text, lastIndex) == << >>

\* if (lastIndex < text.length) output += text.substring(lastIndex)
remainder(text, lastIndex) == From(text, lastIndex)

\* the while loop: lastIndex is the first position not yet copied
RECURSIVE parseLoop(_, _, _, _)
parseLoop(text, tag, lastIndex, currentIndex) ==
    IF currentIndex = 0 THEN remainder(text, lastIndex)
    ELSE LET contentStartIndex == currentIndex + 1
             contentEndIndex == contentEnd(text, contentStartIndex)
             lab == parseLabel(text, contentEndIndex)
             next == IF contentEndIndex # 0 THEN lab.finalEndIndex
                     ELSE resumeUnterminated(currentIndex, contentStartIndex, Len(text))
         IN  Sub(text, lastIndex, currentIndex - 1)
                 \o (IF contentEndIndex # 0
                     THEN transformer(tag, Sub(text, contentStartIndex, contentEndIndex - 1),
                                      lab.found, lab.label)
                     ELSE Sub(text, currentIndex, contentStartIndex - 1))
                 \o parseLoop(text, tag, next, indexOfFrom(text, TagPrefix(tag), next))

parseAndReplace(text, tag) == parseLoop(text, tag, 1, indexOfFrom(text, TagPrefix(tag), 1))

(***************************************************************************)
(* processFoundryTags as a machine.  stack holds one frame per call that   *)
(* has not returned, the outer call first: the call's three arguments, its *)
(* position in the body (pc), its local result and pageIdSet and, while    *)
(* the Localize stage's replace runs, the position after the last match    *)
(* (lastIndex) and the text built so far (output).  While parseAndReplace  *)
(* runs, lastIndex, currentIndex and output are its locals of these names  *)
(* (1-based, currentIndex 0 for -1) and iterations counts the passes of    *)
(* its while loop.                                                         *)
(***************************************************************************)
VARIABLES content, pageIds, localizationData, stack, outcome

(***************************************************************************)
(* The state of the App component (App.tsx).  An id is a positive number:  *)
(* the n-th value of crypto.randomUUID() or an id read from a world file.  *)
(* A journal, actor or item is held by its id, a folder by its id and      *)
(* itemIds, a tab by its id and type.  uuids counts the values that        *)
(* crypto.randomUUID() has returned.  rendered holds openTabs,             *)
(* activeTabId and the three lists as the callbacks and the elements made  *)
(* by the last render have them.                                           *)
(* localizationData above is also the component's state of that name.      *)
(***************************************************************************)
VARIABLES journals, journalFolders, actors, actorFolders, items, itemFolders,
          openTabs, activeTabId, draggedJournalId, draggedActorId, draggedItemId,
          rendered, uuids

App == <<journals, journalFolders, actors, actorFolders, items, itemFolders,
         openTabs, activeTabId, draggedJournalId, draggedActorId, draggedItemId,
         rendered, uuids>>

vars == <<content, pageIds, localizationData, stack, outcome, App>>

\* null, where an id is expected
NullId == 0

\* the values given to useState
Mounted ==
    /\ journals = << >> /\ journalFolders = << >>
    /\ actors = << >> /\ actorFolders = << >>
    /\ items = << >> /\ itemFolders = << >>
    /\ openTabs = << >> /\ activeTabId = NullId
    /\ draggedJournalId = NullId /\ draggedActorId = NullId /\ draggedItemId = NullId
    /\ rendered = [openTabs |-> << >>, activeTabId |-> NullId,
                   journals |-> << >>, actors |-> << >>, items |-> << >>]
    /\ uuids = 0

\* the depth of calls at which the engine raises RangeError
\* (Maximum call stack size exceeded)
StackLimit == 4

\* if (!content) return ''; let result = content;
newFrame(text, ids, data) ==
    [content |-> text, pageIds |-> ids, localizationData |-> data,
     pc |-> IF text = << >> THEN "Return" ELSE "Localize",
     result |-> text, lastIndex |-> 1, output |-> << >>, pageIdSet |-> {},
     currentIndex |-> 0, iterations |-> 0]

Running == outcome.kind = "running"

Top == stack[Len(stack)]

SetTop(f) == [stack EXCEPT ![Len(stack)] = f]

At(pc) == Running /\ stack # << >> /\ Top.pc = pc

Goto(f, pc, result) == [f EXCEPT !.pc = pc, !.result = result]

Args == <<content, pageIds, localizationData>>

\* if (localizationData) is false: the Localize stage is skipped
LocalizeSkip ==
    /\ At("Localize")
    /\ ~truthy(Top.localizationData)
    /\ stack' = SetTop(Goto(Top, "Compendium", Top.result))
    /\ UNCHANGED <<App, Args, outcome>>

LocalizeMatch == NextMatch("Localize", Top.result, Top.lastIndex)

\* a recursive call that is handed a page-id list the outer call has emptied
recursiveCallWithEmptiedList(f, translation) ==
    newFrame(translation, Arr(<< >>), f.localizationData)

\* the arguments of the recursive call of the replace callback
recursiveCall(f, translation) == newFrame(translation, f.pageIds, f.localizationData)

\* a lookup that counts a translation as found only when it is truthy
localizeLookupTruthy(f, key) ==
    LET translation == resolvePath(f.localizationData, trim(key))
    IN  IF truthy(translation) THEN translation ELSE Undefined

\* the callback's resolvePath(localizationData, trimmedKey)
localizeLookup(f, key) == resolvePath(f.localizationData, trim(key))

\* a fallback that shows the key as written between the brackets
localizeFallbackUntrimmed(key) == strong(key)

\* return `<strong>${trimmedKey}</strong>`
localizeFallback(key) == strong(trim(key))

\* the callback finds no translation
LocalizeFallback ==
    /\ At("Localize")
    /\ truthy(Top.localizationData)
    /\ LET m == LocalizeMatch
       IN  /\ m.ok
           /\ localizeLookup(Top, m.g1) = Undefined
           /\ stack' = SetTop([Top EXCEPT
                  !.output = @ \o Sub(Top.result, Top.lastIndex, m.s - 1)
                               \o localizeFallback(m.g1),
                  !.lastIndex = m.e + 1])
    /\ UNCHANGED <<App, Args, outcome>>

\* the callback finds a translation and calls processFoundryTags on it
LocalizeCall ==
    /\ At("Localize")
    /\ truthy(Top.localizationData)
    /\ LET m == LocalizeMatch
       IN  /\ m.ok
           /\ localizeLookup(Top, m.g1) # Undefined
           /\ Len(stack) < StackLimit
           /\ stack' = Append(stack, recursiveCall(Top, localizeLookup(Top, m.g1).v))
    /\ UNCHANGED <<App, Args, outcome>>

\* the same call with the call stack exhausted: RangeError unwinds every frame
StackOverflow ==
    /\ At("Localize")
    /\ truthy(Top.localizationData)
    /\ LET m == LocalizeMatch
       IN  /\ m.ok
           /\ localizeLookup(Top, m.g1) # Undefined
           /\ Len(stack) >= StackLimit
    /\ stack' = << >>
    /\ outcome' = [kind |-> "threw", value |-> <<"RangeError">>]
    /\ UNCHANGED <<App, Args>>

\* no match is left: replace returns the text built, with the rest of the input
LocalizeDone ==
    /\ At("Localize")
    /\ truthy(Top.localizationData)
    /\ ~LocalizeMatch.ok
    /\ stack' = SetTop(Goto(Top, "Compendium",
                            Top.output \o From(Top.result, Top.lastIndex)))
    /\ UNCHANGED <<App, Args, outcome>>

\* a recursive call returns into the callback of its caller
ReturnToCallback ==
    /\ At("Return")
    /\ Len(stack) > 1
    /\ LET caller == stack[Len(stack) - 1]
           m == NextMatch("Localize", caller.result, caller.lastIndex)
       IN  stack' = [Sub(stack, 1, Len(stack) - 1) EXCEPT ![Len(stack) - 1] =
                        [caller EXCEPT
                            !.output = @ \o Sub(caller.result, caller.lastIndex, m.s - 1)
                                         \o Top.result,
                            !.lastIndex = m.e + 1]]
    /\ UNCHANGED <<App, Args, outcome>>

\* the outer call returns
Return ==
    /\ At("Return")
    /\ Len(stack) = 1
    /\ stack' = << >>
    /\ outcome' = [kind |-> "returned", value |-> Top.result]
    /\ UNCHANGED <<App, Args>>

\* a stage that scans the text the call was given, not the current string
StageOnInput(pc, rule, next) ==
    /\ At(pc)
    /\ stack' = SetTop(Goto(Top, next,
                            replaceAll(rule, Top.content, Top.pageIdSet, Top.localizationData)))
    /\ UNCHANGED <<App, Args, outcome>>

\* result = result.replace(<expression of the rule>, <replacement>)
Stage(pc, rule, next) ==
    /\ At(pc)
    /\ stack' = SetTop(Goto(Top, next,
                            replaceAll(rule, Top.result, Top.pageIdSet, Top.localizationData)))
    /\ UNCHANGED <<App, Args, outcome>>

CompendiumStage == Stage("Compendium", "Compendium", "NewSet")

\* new Set(pageIds) takes the elements of an array and nothing from null or
\* undefined; it throws TypeError for a value that is not iterable
iterable(x) == x.t \in {"array", "string", "null", "undefined"}

setOf(x) == IF x.t = "array" THEN {x.v[i] : i \in 1..Len(x.v)} ELSE {}

NewPageIdSet ==
    /\ At("NewSet")
    /\ iterable(Top.pageIds)
    /\ stack' = SetTop([Top EXCEPT !.pc = "UUIDPage", !.pageIdSet = setOf(Top.pageIds)])
    /\ UNCHANGED <<App, Args, outcome>>

NewPageIdSetThrows ==
    /\ At("NewSet")
    /\ ~iterable(Top.pageIds)
    /\ stack' = << >>
    /\ outcome' = [kind |-> "threw", value |-> <<"TypeError">>]
    /\ UNCHANGED <<App, Args>>

UUIDPageStage == Stage("UUIDPage", "UUIDPage", "UUIDActor")

UUIDActorStage == Stage("UUIDActor", "UUIDActor", "UUIDItem")

UUIDItemStage == Stage("UUIDItem", "UUIDItem", "UUIDOther")

UUIDOtherStage == Stage("UUIDOther", "UUIDOther", "Trait")

TraitStage == Stage("Trait", "Trait", "Condition")

ConditionStage == Stage("Condition", "Condition", "Damage")

\* parseAndReplace is entered: tagPrefix, output = "", lastIndex = 0,
\* currentIndex = text.indexOf(tagPrefix)
ScanStart(pc, loop, tag) ==
    /\ At(pc)
    /\ stack' = SetTop([Top EXCEPT
           !.pc = loop, !.output = << >>, !.lastIndex = 1, !.iterations = 0,
           !.currentIndex = indexOfFrom(Top.result, TagPrefix(tag), 1)])
    /\ UNCHANGED <<App, Args, outcome>>

\* a pass of the while loop at an opening that has its closing bracket: the
\* text before it and the transformer's output are appended, the scan
\* resumes after the bracket or after the label
ScanTransform(loop, tag) ==
    /\ At(loop)
    /\ Top.currentIndex # 0
    /\ LET text == Top.result
           contentStartIndex == Top.currentIndex + 1
           contentEndIndex == contentEnd(text, contentStartIndex)
           lab == parseLabel(text, contentEndIndex)
       IN  /\ contentEndIndex # 0
           /\ stack' = SetTop([Top EXCEPT
                  !.output = @ \o Sub(text, Top.lastIndex, Top.currentIndex - 1)
                               \o transformer(tag, Sub(text, contentStartIndex, contentEndIndex - 1),
                                              lab.found, lab.label),
                  !.lastIndex = lab.finalEndIndex,
                  !.currentIndex = indexOfFrom(text, TagPrefix(tag), lab.finalEndIndex),
                  !.iterations = @ + 1])
    /\ UNCHANGED <<App, Args, outcome>>

\* a pass of the while loop at an opening without closing bracket: the text
\* before it and the opening are appended, the scan resumes after the opening
ScanMalformed(loop, tag) ==
    /\ At(loop)
    /\ Top.currentIndex # 0
    /\ LET text == Top.result
           contentStartIndex == Top.currentIndex + 1
           next == resumeUnterminated(Top.currentIndex, contentStartIndex, Len(text))
       IN  /\ contentEnd(text, contentStartIndex) = 0
           /\ stack' = SetTop([Top EXCEPT
                  !.output = @ \o Sub(text, Top.lastIndex, Top.currentIndex - 1)
                               \o Sub(text, Top.currentIndex, contentStartIndex - 1),
                  !.lastIndex = next,
                  !.currentIndex = indexOfFrom(text, TagPrefix(tag), next),
                  !.iterations = @ + 1])
    /\ UNCHANGED <<App, Args, outcome>>

\* the while loop ends: the rest of the text is appended and output returned
ScanReturn(loop, next) ==
    /\ At(loop)
    /\ Top.currentIndex = 0
    /\ stack' = SetTop(Goto(Top, next, Top.output \o remainder(Top.result, Top.lastIndex)))
    /\ UNCHANGED <<App, Args, outcome>>

DamageStage ==
    \/ ScanStart("Damage", "DamageLoop", "Damage")
    \/ ScanTransform("DamageLoop", "Damage")
    \/ ScanMalformed("DamageLoop", "Damage")
    \/ ScanReturn("DamageLoop", "Check")

CheckStage ==
    \/ ScanStart("Check", "CheckLoop", "Check")
    \/ ScanTransform("CheckLoop", "Check")
    \/ ScanMalformed("CheckLoop", "Check")
    \/ ScanReturn("CheckLoop", "Return")

Next ==
    \/ LocalizeSkip
    \/ LocalizeFallback
    \/ LocalizeCall
    \/ StackOverflow
    \/ LocalizeDone
    \/ ReturnToCallback
    \/ Return
    \/ CompendiumStage
    \/ NewPageIdSet
    \/ NewPageIdSetThrows
    \/ UUIDPageStage
    \/ UUIDActorStage
    \/ UUIDItemStage
    \/ UUIDOtherStage
    \/ TraitStage
    \/ ConditionStage
    \/ DamageStage
    \/ CheckStage

(***************************************************************************)
(* The calls checked: texts, page-id lists and dictionaries.               *)
(***************************************************************************)
\* longest text over the plain alphabet, longest @UUID locator, longest
\* bracketed argument of @Damage and @Check
MaxPlain == 3
MaxLocator == 4
MaxArgument == 4

\* all sequences over the alphabet of length at most n
SeqsUpTo(alphabet, n) == UNION {[1..k -> alphabet] : k \in 0..n}

\* no recognised directive opening among these
PlainAlphabet == {"a", " ", "[", "]", "{", "}", "@"}

PlainTexts == SeqsUpTo(PlainAlphabet, MaxPlain)

LocatorAlphabet == {"JournalEntry.", ".JournalEntryPage.", "Actor.", ".Item.", "p1"}

Locators == SeqsUpTo(LocatorAlphabet, MaxLocator)

UUID(locator, label) == <<"@UUID[">> \o locator \o <<"]", "{">> \o label \o <<"}">>

Around == {<< >>, <<"a", " ">>}

\* one well-formed @UUID directive, alone or inside plain text
UUIDTexts ==
    {UUID(loc, <<"L1">>) \o post : loc \in Locators, post \in Around}

\* a reference to a page of the current journal and one to a page of another
CrossJournalTexts ==
    {UUID(<<"JournalEntry.", "j1", ".JournalEntryPage.", "p1">>, <<"L1">>),
     UUID(<<"JournalEntry.", "j2", ".JournalEntryPage.", "p3">>, <<"L1">>),
     UUID(<<"Actor.", "x">>, <<"L1">>),
     <<"a">>}

PairLocators ==
    {<<"JournalEntry.", "j1", ".JournalEntryPage.", "p1">>,
     <<"JournalEntry.", "j1", ".JournalEntryPage.", "p3">>,
     <<"JournalEntry.", "j1">>,
     <<"Actor.", "x">>,
     <<"Compendium.pf2e.", "Actor.", "x">>,
     <<"Compendium.pf2e", ".Item.", "x">>,
     <<"Actor.", "x", ".Item.", "y">>,
     <<"Scene.", "x">>}

\* one directive with a locator as the game writes them
UUIDSingleTexts == {UUID(loc, <<"L1">>) \o post : loc \in PairLocators, post \in Around}

\* what may follow the locator: a label, no label, an unclosed label, nothing
UUIDTails(label) ==
    {<<"]", "{">> \o label \o <<"}">>, <<"]">>, <<"]", "{">> \o label, << >>,
     <<"]", "{">> \o label \o <<NL, "}">>}

\* two @UUID directives, well-formed or not, with plain text between them
UUIDPairTexts ==
    {<<"@UUID[">> \o l1 \o t1 \o <<" ">> \o <<"@UUID[">> \o l2 \o t2 :
        l1 \in PairLocators, l2 \in PairLocators,
        t1 \in UUIDTails(<<"L1">>), t2 \in UUIDTails(<<"L2">>)}

Slugs ==
    {<< >>, <<"fire">>, <<"fire", "-", "resistance">>, <<"fire", "_", "resistance">>,
     <<"range", "-", "increment", "-", "60">>, <<"a", ".", "bar">>}

TraitTexts ==
    {<<open>> \o slug \o tail \o post :
        open \in {"@Trait[", "@Traits["}, slug \in Slugs,
        tail \in {<<"]">>, <<"]", "{", "L1", "}">>, <<"]", "{", "}">>, <<"]", "{", "L1">>, << >>},
        post \in Around}

LabelledTexts ==
    {<<open>> \o arg \o tail \o post :
        open \in {"@Compendium[", "@Condition["},
        arg \in {<<"x">>, <<"x", "]", "y">>, <<"@Damage[", "a", "]">>},
        tail \in {<<"]", "{", "L1", "}">>, <<"]">>, <<"]", "{", "L1">>, <<"]", "{", NL, "}">>,
                  <<"]", "{", "@Damage[", "a", "]", "}">>,
                  <<"]", "{", "@Check[", "reflex", "|", "15", "]", "}">>},
        post \in Around}

ArgumentAlphabet == {"[", "]", "a"}

Arguments == SeqsUpTo(ArgumentAlphabet, MaxArgument)

ScanSuffixes ==
    {<< >>, <<"a">>, <<"{", "L1", "}">>, <<" ", "{", "L1", "}">>, <<"{", "L1">>,
     <<" ", "{", "L1">>, <<"{", "L1", "{", "x", "}", "}">>,
     <<"@Damage[", "b", "]">>, <<"a", "@Check[", "b", "]", "c">>}

\* an opening of @Damage or @Check, an argument balanced or not, closed or not
ScanTexts ==
    {pre \o <<open>> \o arg \o close \o suffix :
        pre \in Around, open \in {"@Damage[", "@Check["}, arg \in Arguments,
        close \in {<<"]">>, << >>}, suffix \in ScanSuffixes}

CheckArguments ==
    {<<"reflex", "|", "dc", ":", "15", "|", "basic", ":", "true">>,
     <<"perception", "|", "20">>,
     <<"Will", "|", " ", "20", " ", "|", "15">>,
     <<"type", ":", "athletics", "|", "dc", ":", "20">>,
     <<"fortitude">>,
     <<"2d6", "[", "fire", "]">>}

CheckTexts ==
    {<<"@Check[">> \o arg \o tail :
        arg \in CheckArguments, tail \in {<<"]">>, <<"]", "{", "L1", "}">>, << >>}}

\* most fields of an @Check argument
MaxParts == 3

\* the fields of an @Check argument: bare save names, a bare word that is no
\* save name, bare integers, and key:value fields
CheckFieldParts ==
    {<<"reflex">>, <<"Will">>, <<"perception">>, <<"15">>, <<"20">>,
     <<"dc", ":", "15">>, <<"type", ":", "athletics">>,
     <<"basic", ":", "true">>, <<"basic", ":", "false">>}

\* the fields joined by '|'
RECURSIVE joinWith(_, _)
joinWith(parts, sep) ==
    IF parts = << >> THEN << >>
    ELSE IF Len(parts) = 1 THEN parts[1]
    ELSE parts[1] \o <<sep>> \o joinWith(Tail(parts), sep)

CheckFieldArguments == {joinWith(parts, "|") : parts \in SeqsUpTo(CheckFieldParts, MaxParts)}

CheckFieldTexts ==
    {<<"@Check[">> \o arg \o tail :
        arg \in CheckFieldArguments, tail \in {<<"]">>, <<"]", "{", "L1", "}">>}}

LocalizeKeys ==
    {<<"Foo", ".", "Bar">>, <<" ", "Foo", ".", "Bar", " ">>, <<"Does", ".", "Not", ".", "Exist">>,
     <<"Foo">>, <<"Self">>, <<"A">>, <<"Empty">>, <<"Count">>, <<"Link">>, <<"Twice">>, << >>,
     <<"Flag">>, <<"List">>, <<"Nothing">>, <<"Foo", ".", "Missing">>, <<" ", "Foo", " ">>}

LocalizeTexts ==
    {pre \o <<"@Localize[">> \o key \o close \o post :
        pre \in Around, key \in LocalizeKeys, close \in {<<"]">>, << >>},
        post \in {<< >>, <<" ", "@Localize[", "Foo", ".", "Bar", "]">>}}

\* a dictionary without a cycle
PlainDictionary ==
    Obj((<<"Foo">> :> Obj(<<"Bar">> :> Str(<<"see", " ", "@Trait[", "fire", "-", "resistance", "]">>)))
        @@ (<<"PF2E">> :> Obj((<<"Trait", "Fire">> :> Str(<<"Feuer">>))
                              @@ (<<"TraitDescription", "Fire">> :>
                                      Str(<<"<b>", "hot", "</b>", Quote, "x", Quote>>))))
        @@ (<<"Empty">> :> Str(<< >>))
        @@ (<<"Count">> :> Num(<<"5">>))
        @@ (<<"Link">> :> Str(UUID(<<"JournalEntry.", "j1", ".JournalEntryPage.", "p1">>, <<"L1">>)))
        @@ (<<"Twice">> :> Str(<<"@Localize[", "Link", "]", " ", "@Localize[", "Count", "]">>))
        @@ (<<"Flag">> :> Bool(TRUE))
        @@ (<<"Nothing">> :> Null)
        @@ (<<"List">> :> Arr(<<Str(<<"a">>)>>)))

\* a dictionary whose values name their own keys, directly and through a cycle
CyclicDictionary ==
    Obj((<<"Self">> :> Str(<<"x", "@Localize[", "Self", "]">>))
        @@ (<<"A">> :> Str(<<"@Localize[", "B", "]">>))
        @@ (<<"B">> :> Str(<<"y", " ", "@Localize[", "A", "]">>))
        @@ (<<"Foo">> :> Obj(<<"Bar">> :> Str(<<"bar">>))))

Dictionaries == {PlainDictionary, CyclicDictionary}

PageIdLists == {Arr(<< >>), Arr(<<Str(<<"p1">>), Str(<<"p2">>)>>)}

Page(id) == Obj(<<"_id">> :> Str(<<id>>))

\* an entry of the journals list: the file's id and the journal's data
Journal(id, journalId, pages) ==
    Obj((<<"id">> :> Str(<<id>>))
        @@ (<<"data">> :> Obj((<<"_id">> :> Str(<<journalId>>)) @@ (<<"pages">> :> Arr(pages)))))

\* the context object the journal viewer passes: the current journal's pages,
\* all journals, the current journal's id
CrossJournalGraph ==
    Obj((<<"pages">> :> Arr(<<Page("p1"), Page("p2")>>))
        @@ (<<"journals">> :> Arr(<<Journal("f1", "j1", <<Page("p1"), Page("p2")>>),
                                    Journal("f2", "j2", <<Page("p3")>>)>>))
        @@ (<<"currentJournalId">> :> Str(<<"j1">>)))

Init ==
    /\ \/ /\ content \in PlainTexts
          /\ pageIds \in PageIdLists
          /\ localizationData \in {Null, PlainDictionary}
       \/ /\ content \in UUIDTexts \cup UUIDSingleTexts
          /\ pageIds \in PageIdLists
          /\ localizationData = Null
       \/ /\ content \in CrossJournalTexts
          /\ pageIds = CrossJournalGraph
          /\ localizationData \in {Null, PlainDictionary}
       \/ /\ content \in UUIDPairTexts
          /\ pageIds = Arr(<<Str(<<"p1">>), Str(<<"p2">>)>>)
          /\ localizationData = Null
       \/ /\ content \in TraitTexts \cup LocalizeTexts
          /\ pageIds = Arr(<<Str(<<"p1">>), Str(<<"p2">>)>>)
          /\ localizationData \in {Null} \cup Dictionaries
       \/ /\ content \in LabelledTexts \cup ScanTexts \cup CheckTexts \cup CheckFieldTexts
          /\ pageIds = Arr(<< >>)
          /\ localizationData = Null
    /\ stack = <<newFrame(content, pageIds, localizationData)>>
    /\ outcome = [kind |-> "running", value |-> << >>]
    /\ Mounted

Spec == Init /\ [][Next]_vars

(***************************************************************************)
(* Calls of the exported functions resolvePath and localize.  The path or  *)
(* key is in content, the object or dictionary in localizationData; the    *)
(* replacements of localize are chosen at the call and kept in outcome     *)
(* with the function called and the value returned.                        *)
(***************************************************************************)
\* most entries of a replacements object
MaxReplacements == 2

LibraryKeys ==
    {<<"Foo", ".", "Bar">>, <<"Foo">>, <<"Foo", ".", "Bar", ".", "Baz">>, <<"Foo", ".", "Missing">>,
     <<"Does", ".", "Not", ".", "Exist">>, <<"Count">>, <<"Empty">>, <<"Flag">>, <<"Nothing">>,
     <<"List">>, <<"List", ".", "0">>, <<"List", ".", "length">>, <<"PF2E", ".", "Trait", "Fire">>,
     <<"foo", ".", "bar">>, <<"a", ".">>, <<".">>, <<"fire">>, << >>,
     <<"Greeting">>, <<"Twice">>, <<"Plain">>,
     <<"fire", "-", "resistance">>, <<"fire", "_", "resistance">>,
     <<"range", "-", "increment", "-", "60">>, <<"range", "_", "increment", "-", "60">>,
     <<"-", "fire">>}

\* a dictionary whose values hold placeholders
PlaceholderDictionary ==
    Obj((<<"Greeting">> :> Str(<<"{", "a", "}", " ", "{", "b", "}">>))
        @@ (<<"Twice">> :> Str(<<"{", "a", "}", "{", "a", "}", " ", "{", "c", "}">>))
        @@ (<<"Plain">> :> Str(<<"hi">>)))

PlaceholderNames == {<<"a">>, <<"b">>, <<"c">>}

PlaceholderValues ==
    {Str(<<"X">>), Str(<<"{", "b", "}">>), Str(<<"{", "a", "}">>), Str(<<"$&">>), Num(<<"5">>)}

\* the entries of a replacements object: distinct names, in insertion order
ReplacementLists ==
    {r \in SeqsUpTo(PlaceholderNames \X PlaceholderValues, MaxReplacements) :
        \A i, j \in 1..Len(r) : i # j => r[i][1] # r[j][1]}

LibraryInit ==
    /\ content \in LibraryKeys
    /\ localizationData \in {Null, PlainDictionary, PlaceholderDictionary}
    /\ pageIds = Arr(<< >>)
    /\ stack = << >>
    /\ outcome = [kind |-> "running", value |-> << >>]
    /\ Mounted

CallResolvePath ==
    /\ Running
    /\ outcome' = [kind |-> "resolvePath", value |-> resolvePath(localizationData, content)]
    /\ UNCHANGED <<App, Args, stack>>

CallLocalize ==
    /\ Running
    /\ \E replacements \in {Undefined} \cup {Arr(r) : r \in ReplacementLists} :
          outcome' = [kind |-> "localize",
                      value |-> Str(localizeWith(localizationData, content, replacements)),
                      replacements |-> replacements]
    /\ UNCHANGED <<App, Args, stack>>

CallSlugToPascalCase ==
    /\ Running
    /\ outcome' = [kind |-> "slugToPascalCase", value |-> Str(slugToPascalCase(content))]
    /\ UNCHANGED <<App, Args, stack>>

LibraryNext == CallResolvePath \/ CallLocalize \/ CallSlugToPascalCase

LibrarySpec == LibraryInit /\ [][LibraryNext]_vars

(***************************************************************************)
(* The handlers of App.tsx.  React re-renders after the state updates of   *)
(* a handler, and the handlers bound to the component's own elements run   *)
(* on what the last render shows: those actions hold the render.           *)
(* handleOpenItem is also handed on: through handleOpenActorByName and     *)
(* handleOpenItemByName to the listeners of the viewers, and to the file   *)
(* reader's callback of handleFileSelect, which keeps the callback of the  *)
(* first render (useCallback with no dependencies).  Its calls may come    *)
(* before the render of the calls before them; Render is then a step of    *)
(* its own.                                                                *)
(***************************************************************************)
\* the number of calls of crypto.randomUUID()
MaxUUIDs == 2

\* the number of tabs in the tab bar
MaxTabs == 3

Types == {"journal", "actor", "item"}

Ids(list) == {list[i] : i \in 1..Len(list)}

without(list, id) == SelectSeq(list, LAMBDA x : x # id)

listItems(type) ==
    CASE type = "journal" -> journals [] type = "actor" -> actors [] OTHER -> items

listFolders(type) ==
    CASE type = "journal" -> journalFolders [] type = "actor" -> actorFolders
      [] OTHER -> itemFolders

\* the list of the type as the last render has it
renderedItems(type) ==
    CASE type = "journal" -> rendered.journals [] type = "actor" -> rendered.actors
      [] OTHER -> rendered.items

draggedId(type) ==
    CASE type = "journal" -> draggedJournalId [] type = "actor" -> draggedActorId
      [] OTHER -> draggedItemId

setListItems(type, newItems) ==
    /\ journals' = IF type = "journal" THEN newItems ELSE journals
    /\ actors' = IF type = "actor" THEN newItems ELSE actors
    /\ items' = IF type = "item" THEN newItems ELSE items

setFolders(type, newFolders) ==
    /\ journalFolders' = IF type = "journal" THEN newFolders ELSE journalFolders
    /\ actorFolders' = IF type = "actor" THEN newFolders ELSE actorFolders
    /\ itemFolders' = IF type = "item" THEN newFolders ELSE itemFolders

setDraggedId(type, id) ==
    /\ draggedJournalId' = IF type = "journal" THEN id ELSE draggedJournalId
    /\ draggedActorId' = IF type = "actor" THEN id ELSE draggedActorId
    /\ draggedItemId' = IF type = "item" THEN id ELSE draggedItemId

Lists == <<journals, actors, items>>

Folders == <<journalFolders, actorFolders, itemFolders>>

Dragged == <<draggedJournalId, draggedActorId, draggedItemId>>

Parser == <<content, pageIds, stack, outcome>>

TabIds(tabs) == {tabs[i].id : i \in 1..Len(tabs)}

\* the last render shows the state
Rendered ==
    rendered = [openTabs |-> openTabs, activeTabId |-> activeTabId,
                journals |-> journals, actors |-> actors, items |-> items]

\* the render that follows the updates of a handler
Rerender ==
    rendered' = [openTabs |-> openTabs', activeTabId |-> activeTabId',
                 journals |-> journals', actors |-> actors', items |-> items']

\* no drag is under way
NoDrag == draggedJournalId = NullId /\ draggedActorId = NullId /\ draggedItemId = NullId

\* a render after calls of handleOpenItem
Render ==
    /\ ~Rendered
    /\ rendered' = [openTabs |-> openTabs, activeTabId |-> activeTabId,
                    journals |-> journals, actors |-> actors, items |-> items]
    /\ UNCHANGED <<Lists, Folders, openTabs, activeTabId, Dragged, uuids,
                   localizationData, Parser>>

\* a list that never gets a new tab
openedTabsNever(snapshot, tabs, itemId, type) == tabs

\* if (!openTabs.find(t => t.id === itemId)) setOpenTabs(prev => [...prev, {id: itemId, type}]):
\* the test reads the openTabs of the callback's render (snapshot), the
\* update is applied to the list as it is then (tabs)
openedTabs(snapshot, tabs, itemId, type) ==
    IF ~\E i \in 1..Len(snapshot) : snapshot[i].id = itemId
    THEN Append(tabs, [id |-> itemId, type |-> type])
    ELSE tabs

\* the body of handleOpenItem in the callback of a render with openTabs = snapshot
openItem(snapshot, itemId, type) ==
    /\ openTabs' = openedTabs(snapshot, openTabs, itemId, type)
    /\ activeTabId' = itemId

\* a call for an item of the last render, by the callback of that render
handleOpenItem(itemId, type) ==
    /\ NoDrag
    /\ itemId \in Ids(renderedItems(type))
    /\ Len(openTabs) < MaxTabs
    /\ openItem(rendered.openTabs, itemId, type)
    /\ UNCHANGED <<Lists, Folders, Dragged, rendered, uuids, localizationData, Parser>>

\* reader.onload of handleFileSelect for a file with an actor, a journal or
\* an item: the handleOpenItem it calls is the one of the first render,
\* whose openTabs is the empty list
handleFileSelect(type) ==
    /\ NoDrag
    /\ uuids < MaxUUIDs
    /\ Len(openTabs) < MaxTabs
    /\ uuids' = uuids + 1
    /\ setListItems(type, Append(listItems(type), uuids + 1))
    /\ openItem(<< >>, uuids + 1, type)
    /\ UNCHANGED <<Folders, Dragged, rendered, localizationData, Parser>>

\* onClick of a tab: setActiveTabId(tab.id)
TabClick(id) ==
    /\ Rendered /\ NoDrag
    /\ id \in TabIds(openTabs)
    /\ activeTabId' = id
    /\ UNCHANGED <<Lists, Folders, openTabs, Dragged, uuids, localizationData, Parser>>
    /\ Rerender

\* openTabs.findIndex(t => t.id === id), from 0, -1 when there is none
findIndex(tabs, id) ==
    IF id \in TabIds(tabs) THEN Min({i \in 1..Len(tabs) : tabs[i].id = id}) - 1 ELSE -1

\* tabs[index] with the index from 0: undefined outside the list
tabAt(tabs, index) ==
    IF index >= 0 /\ index < Len(tabs) THEN tabs[index + 1] ELSE Undefined

\* a choice that always takes the first of the tabs left
newActiveTabFirst(tabs, newOpenTabs, tabIdToClose) ==
    IF Len(newOpenTabs) > 0 THEN newOpenTabs[1].id ELSE NullId

\* newOpenTabs[closingIndex] || newOpenTabs[closingIndex - 1] || newOpenTabs[0],
\* null when no tab is left; the id of it
newActiveTab(tabs, newOpenTabs, tabIdToClose) ==
    LET closingTabIndex == findIndex(tabs, tabIdToClose)
    IN  IF Len(newOpenTabs) > 0
        THEN IF tabAt(newOpenTabs, closingTabIndex) # Undefined
             THEN tabAt(newOpenTabs, closingTabIndex).id
             ELSE IF tabAt(newOpenTabs, closingTabIndex - 1) # Undefined
                  THEN tabAt(newOpenTabs, closingTabIndex - 1).id
                  ELSE newOpenTabs[1].id
        ELSE NullId

\* the body of handleCloseTab in the callback of the last render
closeTab(tabIdToClose) ==
    LET newOpenTabs == SelectSeq(rendered.openTabs, LAMBDA t : t.id # tabIdToClose)
    IN  /\ activeTabId' = IF rendered.activeTabId = tabIdToClose
                          THEN newActiveTab(rendered.openTabs, newOpenTabs, tabIdToClose)
                          ELSE activeTabId
        /\ openTabs' = newOpenTabs

handleCloseTab(tabIdToClose) ==
    /\ Rendered /\ NoDrag
    /\ tabIdToClose \in TabIds(rendered.openTabs)
    /\ closeTab(tabIdToClose)
    /\ UNCHANGED <<Lists, Folders, Dragged, uuids, localizationData, Parser>>
    /\ Rerender

\* with a name that is not blank
handleCreateFolder(type) ==
    /\ Rendered /\ NoDrag
    /\ uuids < MaxUUIDs
    /\ uuids' = uuids + 1
    /\ setFolders(type, Append(listFolders(type), [id |-> uuids + 1, itemIds |-> << >>]))
    /\ UNCHANGED <<Lists, openTabs, activeTabId, Dragged, rendered, localizationData, Parser>>

\* prev.map(f => ({...f, itemIds: f.itemIds.filter(id => id !== itemId)}))
withoutItem(folders, itemId) ==
    [i \in 1..Len(folders) |-> [folders[i] EXCEPT !.itemIds = without(@, itemId)]]

\* after window.confirm
handleDeleteItem(itemId, type) ==
    /\ Rendered /\ NoDrag
    /\ itemId \in Ids(listItems(type))
    /\ setListItems(type, without(listItems(type), itemId))
    /\ setFolders(type, withoutItem(listFolders(type), itemId))
    /\ closeTab(itemId)
    /\ UNCHANGED <<Dragged, uuids, localizationData, Parser>>
    /\ Rerender

\* after window.confirm
handleDeleteFolder(folderId, type) ==
    /\ Rendered /\ NoDrag
    /\ \E i \in 1..Len(listFolders(type)) : listFolders(type)[i].id = folderId
    /\ setFolders(type, SelectSeq(listFolders(type), LAMBDA f : f.id # folderId))
    /\ UNCHANGED <<Lists, openTabs, activeTabId, Dragged, rendered, uuids,
                   localizationData, Parser>>

\* onDragStart of a list item: setDraggedId(item.id)
onDragStart(itemId, type) ==
    /\ Rendered /\ NoDrag
    /\ itemId \in Ids(listItems(type))
    /\ setDraggedId(type, itemId)
    /\ UNCHANGED <<Lists, Folders, openTabs, activeTabId, rendered, uuids,
                   localizationData, Parser>>

\* onDragEnd of a list item: setDraggedId(null)
onDragEnd(type) ==
    /\ draggedId(type) # NullId
    /\ setDraggedId(type, NullId)
    /\ UNCHANGED <<Lists, Folders, openTabs, activeTabId, rendered, uuids,
                   localizationData, Parser>>

\* an update that leaves the item in the folder it came from
droppedFoldersKeepingSource(currentFolders, dragged, targetFolderId) ==
    LET targets == {i \in 1..Len(currentFolders) : currentFolders[i].id = targetFolderId}
    IN  IF targetFolderId # NullId /\ targets # {}
           /\ dragged \notin Ids(currentFolders[Min(targets)].itemIds)
        THEN [currentFolders EXCEPT ![Min(targets)].itemIds = Append(@, dragged)]
        ELSE currentFolders

\* the update given to setFolders by handleDrop
droppedFolders(currentFolders, dragged, targetFolderId) ==
    LET sources == {i \in 1..Len(currentFolders) : dragged \in Ids(currentFolders[i].itemIds)}
        newFolders == IF sources = {} THEN currentFolders
                      ELSE [currentFolders EXCEPT ![Min(sources)].itemIds = without(@, dragged)]
        targets == {i \in 1..Len(newFolders) : newFolders[i].id = targetFolderId}
    IN  IF targetFolderId # NullId /\ targets # {}
           /\ dragged \notin Ids(newFolders[Min(targets)].itemIds)
        THEN [newFolders EXCEPT ![Min(targets)].itemIds = Append(@, dragged)]
        ELSE newFolders

\* onDrop of a folder (targetFolderId its id) or of the list (null)
handleDrop(targetFolderId, type) ==
    /\ Rendered
    /\ draggedId(type) # NullId
    /\ \/ targetFolderId = NullId
       \/ \E i \in 1..Len(listFolders(type)) : listFolders(type)[i].id = targetFolderId
    /\ setFolders(type, droppedFolders(listFolders(type), draggedId(type), targetFolderId))
    /\ UNCHANGED <<Lists, openTabs, activeTabId, Dragged, rendered, uuids,
                   localizationData, Parser>>

\* world files written by handleSaveWorld; absent lists are read as empty,
\* an absent dictionary as null
WorldFiles ==
    {[journals |-> <<101>>, journalFolders |-> <<[id |-> 102, itemIds |-> <<101>>]>>,
      actors |-> <<103>>, actorFolders |-> << >>, items |-> << >>, itemFolders |-> << >>,
      localizationData |-> PlainDictionary],
     [journals |-> <<101>>, journalFolders |-> << >>,
      actors |-> << >>, actorFolders |-> << >>, items |-> << >>, itemFolders |-> << >>,
      localizationData |-> Null]}

\* reader.onload of handleLoadWorldFile for a file with one of the lists
handleLoadWorldFile(data) ==
    /\ NoDrag
    /\ journals' = data.journals /\ journalFolders' = data.journalFolders
    /\ actors' = data.actors /\ actorFolders' = data.actorFolders
    /\ items' = data.items /\ itemFolders' = data.itemFolders
    /\ localizationData' = data.localizationData
    /\ openTabs' = << >>
    /\ activeTabId' = NullId
    /\ UNCHANGED <<Dragged, uuids, Parser>>
    /\ Rerender

AppInit ==
    /\ Mounted
    /\ localizationData = Null
    /\ content = << >>
    /\ pageIds = Arr(<< >>)
    /\ stack = << >>
    /\ outcome = [kind |-> "running", value |-> << >>]

AppNext ==
    \/ Render
    \/ \E type \in Types : \E itemId \in Ids(renderedItems(type)) : handleOpenItem(itemId, type)
    \/ \E type \in Types : handleFileSelect(type)
    \/ \E id \in TabIds(openTabs) : TabClick(id)
    \/ \E id \in TabIds(openTabs) : handleCloseTab(id)
    \/ \E type \in Types : handleCreateFolder(type)
    \/ \E type \in Types : \E itemId \in Ids(listItems(type)) : handleDeleteItem(itemId, type)
    \/ \E type \in Types : \E i \in 1..Len(listFolders(type)) :
          handleDeleteFolder(listFolders(type)[i].id, type)
    \/ \E type \in Types : \E itemId \in Ids(listItems(type)) : onDragStart(itemId, type)
    \/ \E type \in Types : onDragEnd(type)
    \/ \E type \in Types :
          \E targetFolderId \in {NullId} \cup {listFolders(type)[i].id : i \in 1..Len(listFolders(type))} :
             handleDrop(targetFolderId, type)
    \/ \E data \in WorldFiles : handleLoadWorldFile(data)

AppSpec == AppInit /\ [][AppNext]_vars

(***************************************************************************)
(* Properties                                                              *)
(***************************************************************************)
Returned == outcome.kind = "returned"

Threw == outcome.kind = "threw"

DirectiveOpenings ==
    {"@Localize[", "@Compendium[", "@UUID[", "@Trait[", "@Traits[", "@Condition[",
     "@Damage[", "@Check["}

NoDirective(text) == \A i \in 1..Len(text) : text[i] \notin DirectiveOpenings

IsPrefix(p, s) == Len(p) <= Len(s) /\ Sub(s, 1, Len(p)) = p

\* s holds the tokens of part, in a row
Contains(s, part) == \E i \in 0..(Len(s) - Len(part)) : Sub(s, i + 1, i + Len(part)) = part

\* C1: for every text, every page-id list and every dictionary (or none) the
\* call completes and returns a string; it never raises an error.
C1_NeverThrows == pageIds.t = "array" => ~Threw

\* C2: with any dictionary, also one whose values name their own keys, the
\* recursion of the Localize stage stops and the outer call returns, and each
\* nested call has the page-id list and the dictionary of the outer call.
\* A call nested in a call with the same text and context repeats it without end.
C2_LocalizeRecursionReturns ==
    /\ outcome.value # <<"RangeError">>
    /\ \A i \in 1..Len(stack) :
          /\ stack[i].pageIds = pageIds
          /\ stack[i].localizationData = localizationData
          /\ \A k \in 1..(i - 1) : stack[k].content # stack[i].content

\* C3: a text without directive syntax comes back unchanged, at every stage
\* of the call and as its result.
C3_PlainTextUnchanged ==
    (NoDirective(content) /\ pageIds.t = "array") =>
        /\ ~Threw
        /\ Returned => outcome.value = content
        /\ \A i \in 1..Len(stack) : stack[i].result = content

C3_Witness ==
    /\ Returned
    /\ content = <<"a", "[", "@">>
    /\ outcome.value = content

PageLocator(j, p) == <<"JournalEntry.">> \o j \o <<".JournalEntryPage.">> \o p

\* journal ids and page ids: words of an id, with no keyword of a locator
JournalIds == {<< >>, <<"p1">>, <<"j1">>, <<"p1", "p1">>}

PageIdWords == {<<"p1">>, <<"p3">>}

\* C4: @UUID[JournalEntry.<j>.JournalEntryPage.<p>]{<label>} becomes a link
\* marker carrying <p> and showing <label> when <p> is in the page-id list of
\* the call, and <label> in bold when it is not.
C4_PageLink ==
    (Returned /\ pageIds.t = "array") =>
        \A j \in JournalIds, p \in PageIdWords, post \in Around :
            content = UUID(PageLocator(j, p), <<"L1">>) \o post =>
                outcome.value =
                    (IF \E i \in 1..Len(pageIds.v) : pageIds.v[i] = Str(p)
                     THEN <<DataPageId>> \o p \o <<"'>", "L1", "</a>">>
                     ELSE <<"<strong>", "L1", "</strong>">>) \o post

C4_Witness ==
    /\ Returned
    /\ content = UUID(PageLocator(<<"p1">>, <<"p1">>), <<"L1">>)
    /\ pageIds = Arr(<<Str(<<"p1">>), Str(<<"p2">>)>>)
    /\ outcome.value = <<DataPageId, "p1", "'>", "L1", "</a>">>

DataJournalFoundryId == "<a href='#' class='internal-journal-link' data-journal-foundry-id='"

\* C5: with a cross-journal graph as context, a reference to a page of another
\* journal becomes a marker carrying the journal's id and the page's id.
C5_CrossJournalMarker ==
    (~Running /\ pageIds = CrossJournalGraph
        /\ content = UUID(PageLocator(<<"j2">>, <<"p3">>), <<"L1">>)) =>
        /\ Returned
        /\ Len(outcome.value) > 0
        /\ outcome.value[1] = DataJournalFoundryId
        /\ Contains(outcome.value, <<"p3">>)
        /\ Contains(outcome.value, <<"L1">>)

\* the text is one @UUID directive with this locator and the label L1, then post
SingleUUID(text, loc, post) == text = UUID(loc, <<"L1">>) \o post

\* what stands between the first token of the text and its first ']'
FirstArgument(text) == Sub(text, 2, indexOfFrom(text, "]", 1) - 1)

Has(loc, tok) == \E i \in 1..Len(loc) : loc[i] = tok

ActorMarker(label) == <<DataActorName>> \o label \o <<"'>">> \o label \o <<"</a>">>

ItemMarker(label) == <<DataItemName>> \o label \o <<"'>">> \o label \o <<"</a>">>

Bold(label) == <<"<strong>">> \o label \o <<"</strong>">>

PageMarker(p, label) == <<DataPageId>> \o p \o <<"'>">> \o label \o <<"</a>">>

\* the sub-case by what the locator contains, in the order page, actor, item
ContainsCase(loc) ==
    IF \E a, b \in 1..Len(loc) :
           a < b /\ loc[a] = "JournalEntry." /\ loc[b] = ".JournalEntryPage."
    THEN "page"
    ELSE IF Has(loc, "Actor.") THEN "actor"
    ELSE IF Has(loc, ".Item.") THEN "item"
    ELSE "other"

\* the sub-case by where the locator has it: 'JournalEntry.' and 'Actor.' at
\* the start of the locator, '.Item.' anywhere
PositionCase(loc) ==
    IF loc # << >> /\ loc[1] = "JournalEntry."
       /\ \E b \in 2..Len(loc) : loc[b] = ".JournalEntryPage."
    THEN "page"
    ELSE IF loc # << >> /\ loc[1] = "Actor." THEN "actor"
    ELSE IF Has(loc, ".Item.") THEN "item"
    ELSE "other"

\* the page id of a page locator: what follows the first '.JournalEntryPage.'
PageIdOf(loc) == From(loc, Min({b \in 2..Len(loc) : loc[b] = ".JournalEntryPage."}) + 1)

InPageIds(p) == \E i \in 1..Len(pageIds.v) : pageIds.v[i] = Str(p)

Rewritten(case, loc, label) ==
    CASE case = "page" ->
           IF InPageIds(PageIdOf(loc)) THEN PageMarker(PageIdOf(loc), label) ELSE Bold(label)
      [] case = "actor" -> ActorMarker(label)
      [] case = "item" -> ItemMarker(label)
      [] OTHER -> Bold(label)

\* C6 as stated: the sub-case of @UUID[<locator>]{<label>} is page, else actor,
\* else item, else bold label, by what the locator contains anywhere in it.
C6_SubCaseByContent ==
    (Returned /\ pageIds.t = "array") =>
        \A loc \in PairLocators, post \in Around :
            SingleUUID(content, loc, post) =>
                CASE ContainsCase(loc) = "page" ->
                       outcome.value[1] \in {DataPageId, "<strong>"}
                  [] OTHER ->
                       outcome.value = Rewritten(ContainsCase(loc), loc, <<"L1">>) \o post

\* C6 amended: in a text whose only directive is @UUID[<locator>]{<label>}, the
\* sub-case is page when the locator begins with 'JournalEntry.' and has
\* '.JournalEntryPage.' later, else actor when it begins with 'Actor.', else
\* item when it contains '.Item.', else the label in bold.
C6_SubCaseByPosition ==
    (Returned /\ pageIds.t = "array") =>
        \A post \in Around :
            LET loc == FirstArgument(content)
            IN  (loc \in Locators \cup PairLocators /\ SingleUUID(content, loc, post)) =>
                    outcome.value = Rewritten(PositionCase(loc), loc, <<"L1">>) \o post

C6_Witness ==
    /\ Returned
    /\ content = UUID(<<"p1", "Actor.", ".Item.", "p1">>, <<"L1">>)
    /\ outcome.value = ItemMarker(<<"L1">>)

\* C7: of several well-formed @UUID directives each is rewritten on its own:
\* one that is no page, actor or item reference becomes its label in bold
\* whatever follows it, and every label appears in the output.
C7_EachDirectiveOnItsOwn ==
    Returned =>
        \A l1 \in PairLocators, l2 \in PairLocators :
            content = UUID(l1, <<"L1">>) \o <<" ">> \o UUID(l2, <<"L2">>) =>
                /\ Contains(outcome.value, <<"L1">>)
                /\ Contains(outcome.value, <<"L2">>)
                /\ PositionCase(l1) = "other" => IsPrefix(Bold(<<"L1">>), outcome.value)

\* C8: without an explicit label the trait's label is the dictionary's value at
\* PF2E.Trait<PascalCase slug> when there is one, else the PascalCase slug:
\* @Trait[fire-resistance] shows FireResistance when there is no dictionary
\* and when the dictionary has no such entry.
C8_TraitLabelChain ==
    Returned =>
        \A open \in {"@Trait[", "@Traits["}, slug \in {<<"fire", "-", "resistance">>},
           post \in Around :
            content = <<open>> \o slug \o <<"]">> \o post =>
                LET name == resolvePath(localizationData, TraitKey(slugToPascalCase(slug)))
                    label == IF name # Undefined THEN name.v ELSE slugToPascalCase(slug)
                IN  Contains(outcome.value,
                             <<"'><code class='trait-code'>">> \o label \o <<"</code></span>">>)

RECURSIVE Depth(_)
Depth(arg) ==
    IF arg = << >> THEN 0
    ELSE Depth(Sub(arg, 1, Len(arg) - 1))
             + (CASE arg[Len(arg)] = "[" -> 1 [] arg[Len(arg)] = "]" -> -1 [] OTHER -> 0)

\* every ']' of arg closes a '[' of arg, and every '[' is closed
Balanced(arg) == Depth(arg) = 0 /\ \A n \in 1..Len(arg) : Depth(Sub(arg, 1, n)) >= 0

\* C9: @Damage[<content>] with the brackets of <content> balanced, to any
\* depth, becomes <content> unchanged in bold: the argument ends at the bracket
\* that brings the depth back to zero.
C9_DamageNestedBrackets ==
    Returned =>
        \A pre \in Around :
            IsPrefix(pre \o <<"@Damage[">>, content) =>
                \A e \in (Len(pre) + 2)..Len(content) :
                    LET arg == Sub(content, Len(pre) + 2, e - 1)
                        suffix == From(content, e + 1)
                    IN  (content[e] = "]" /\ arg \in Arguments /\ Balanced(arg)) =>
                            /\ IsPrefix(pre \o Bold(arg), outcome.value)
                            /\ suffix \in {<< >>, <<"a">>} =>
                                   outcome.value = pre \o Bold(arg) \o suffix

C9_Witness ==
    /\ Returned
    /\ content = <<"@Damage[", "[", "[", "]", "]", "]", "a">>
    /\ outcome.value = <<"<strong>", "[", "[", "]", "]", "</strong>", "a">>

\* the opening at position i of the text has no closing bracket: the depth
\* never comes back to zero after it
Unterminated(text, i) ==
    \A n \in (i + 1)..Len(text) :
        Depth([k \in 1..(n - i) |-> IF text[i + k] \in OpenBracketToks THEN "[" ELSE text[i + k]]) >= 0

\* C10: an opening @Damage[ or @Check[ without matching close bracket stays in
\* the output as written, nothing of the text after it is dropped, and the
\* directives after it are rewritten as they are in a text that starts there.
C10_UnterminatedOpening ==
    Returned =>
        \A pre \in Around, open \in {"@Damage[", "@Check["} :
            (/\ IsPrefix(pre \o <<open>>, content)
             /\ content \in ScanTexts
             /\ Unterminated(content, Len(pre) + 1)) =>
                LET rest == From(content, Len(pre) + 2)
                IN  /\ outcome.value =
                           pre \o <<open>>
                               \o parseAndReplace(parseAndReplace(rest, "Damage"), "Check")
                    /\ NoDirective(rest) => outcome.value = content

C10_Witness ==
    /\ Returned
    /\ content = <<"@Damage[", "[", "a", "a", "@Check[", "b", "]", "c">>
    /\ outcome.value = <<"@Damage[", "[", "a", "a", "<strong>", "b", "</strong>", "c">>

ScanLoops == {"DamageLoop", "CheckLoop"}

InScan == Running /\ stack # << >> /\ Top.pc \in ScanLoops

\* the openings of the tag in the text
Openings(text, tag) == Cardinality({i \in 1..Len(text) : text[i] = TagPrefix(tag)})

ScanTag == IF Top.pc = "DamageLoop" THEN "Damage" ELSE "Check"

\* C11: the bracket-depth scan of Damage and Check ends on every text: every
\* pass of its loop, whether the directive is rewritten, has a label without
\* end or has no closing bracket, moves the resume position strictly forward
\* and never beyond the end of the text, and the passes are at most as many
\* as the openings of the tag in the text.
C11_ScanTerminates ==
    /\ [](InScan =>
            /\ Top.iterations <= Openings(Top.result, ScanTag)
            /\ Top.lastIndex <= Len(Top.result) + 1
            /\ Top.currentIndex = 0 \/ Top.currentIndex >= Top.lastIndex)
    /\ [][(InScan /\ Top.currentIndex # 0) =>
            /\ stack' # << >>
            /\ Top'.pc = Top.pc
            /\ Top'.lastIndex > Top.lastIndex
            /\ Top'.iterations = Top.iterations + 1]_vars

\* two passes: an opening without closing bracket, then a directive rewritten
C11_Witness ==
    /\ InScan
    /\ content = <<"@Damage[", "[", "]", "@Damage[", "b", "]">>
    /\ Top.pc = "DamageLoop"
    /\ Top.iterations = 2
    /\ Top.lastIndex = 7
    /\ Top.output = <<"@Damage[", "[", "]", "<strong>", "b", "</strong>">>

\* the argument of the @Check directive a text of CheckFieldTexts consists of,
\* its fields, and the values parsed from them
CheckArgument == Sub(content, 2, indexOfFrom(content, "]", 1) - 1)

CheckFields == split(CheckArgument, "|")

Parsed == checkParts(EmptyValues, CheckFields)

CheckLabel == IF Len(content) > Len(CheckArgument) + 2 THEN <<"L1">> ELSE CheckArgument

CheckRewritten == Returned /\ content \in CheckFieldTexts

\* C12: when the fields of an @Check argument give a type and a dc, the
\* output is one bold label: Basic_ exactly when the basic field is the string
\* true, the type with its first letter in upper case, _DC and the dc.
C12_CheckNormalizedLabel ==
    (CheckRewritten /\ field(Parsed, <<"type">>) # << >> /\ field(Parsed, <<"dc">>) # << >>) =>
        LET type == field(Parsed, <<"type">>)
            label == <<UpperFirstTok(type[1])>> \o Tail(type) \o <<"_DC">> \o field(Parsed, <<"dc">>)
        IN  outcome.value =
                <<"<strong>">>
                    \o (IF \E k \in 1..Len(CheckFields) : CheckFields[k] = <<"basic", ":", "true">>
                           /\ \A n \in (k + 1)..Len(CheckFields) : CheckFields[n] # <<"basic", ":", "false">>
                        THEN <<"Basic_">> ELSE << >>)
                    \o label \o <<"</strong>">>

C12_Witness ==
    /\ Returned
    /\ content = <<"@Check[", "reflex", "|", "dc", ":", "15", "|", "basic", ":", "true", "]">>
    /\ outcome.value = <<"<strong>", "Basic_", "Reflex", "_DC", "15", "</strong>">>

\* C13: an @Check argument that does not give both a type and a dc comes out
\* as a readable reconstruction of the fields given, @Check[perception|20] as
\* bold Perception DC 20; the label or the raw argument is written only when
\* nothing was parsed.
C13_CheckFallbackReconstruction ==
    (CheckRewritten /\ ~(field(Parsed, <<"type">>) # << >> /\ field(Parsed, <<"dc">>) # << >>)) =>
        /\ CheckArgument = <<"perception", "|", "20">> =>
               outcome.value = <<"<strong>", "Perception", " ", "DC", " ", "20", "</strong>">>
        /\ outcome.value = <<"<strong>">> \o CheckLabel \o <<"</strong>">> =>
               \A k \in {<<"type">>, <<"dc">>, <<"basic">>} : field(Parsed, k) = << >>

Bare(part) == \A i \in 1..Len(part) : part[i] # ":"

IsSaveName(part) == toLowerCase(trim(part)) \in {<<"reflex">>, <<"fortitude">>, <<"will">>}

IsInteger(part) == trim(part) # << >> /\ trim(part)[1] \in IntLeadToks

\* the first field of the sequence that satisfies P, << >> when there is none
FirstSaveName(parts) ==
    LET ks == {k \in 1..Len(parts) : IsSaveName(parts[k])}
    IN  IF ks = {} THEN << >> ELSE toLowerCase(trim(parts[Min(ks)]))

FirstInteger(parts) ==
    LET ks == {k \in 1..Len(parts) : IsInteger(parts[k])}
    IN  IF ks = {} THEN << >> ELSE toLowerCase(trim(parts[Min(ks)]))

\* C14: reading an @Check argument from the left, a bare save name sets type
\* only while type is not set, a bare integer sets dc only while dc is not
\* set, a bare token changes nothing else, and one that is neither changes
\* nothing; so an argument of bare tokens has the first save name as type and
\* the first integer as dc.
C14_BareTokens ==
    CheckRewritten =>
        /\ \A k \in 1..Len(CheckFields) :
              LET before == checkParts(EmptyValues, Sub(CheckFields, 1, k - 1))
                  after == checkPart(before, CheckFields[k])
                  token == toLowerCase(trim(CheckFields[k]))
              IN  Bare(CheckFields[k]) =>
                      /\ field(after, <<"type">>) =
                             (IF IsSaveName(CheckFields[k]) /\ field(before, <<"type">>) = << >>
                              THEN token ELSE field(before, <<"type">>))
                      /\ field(after, <<"dc">>) =
                             (IF IsInteger(CheckFields[k]) /\ field(before, <<"dc">>) = << >>
                              THEN token ELSE field(before, <<"dc">>))
                      /\ field(after, <<"basic">>) = field(before, <<"basic">>)
        /\ (\A k \in 1..Len(CheckFields) : Bare(CheckFields[k])) =>
              /\ field(Parsed, <<"type">>) = FirstSaveName(CheckFields)
              /\ field(Parsed, <<"dc">>) = FirstInteger(CheckFields)
              /\ (FirstSaveName(CheckFields) # << >> /\ FirstInteger(CheckFields) # << >>) =>
                     outcome.value = strong(capitalize(FirstSaveName(CheckFields))
                                                \o <<"_DC">> \o FirstInteger(CheckFields))

C14_Witness ==
    /\ Returned
    /\ content = <<"@Check[", "Will", "|", "20", "|", "15", "]">>
    /\ outcome.value = <<"<strong>", "Will", "_DC", "20", "</strong>">>

LocalizeOnly(key) == <<"@Localize[">> \o key \o <<"]">>

\* C15: with a dictionary, @Localize[<key>] whose key resolves to a string is
\* replaced by the result of the whole pipeline on that string: the call
\* returns and no directive of the value, or of the values it refers to,
\* is left as written.
C15_LocalizeFullyExpanded ==
    (~Running /\ truthy(localizationData)) =>
        \A key \in LocalizeKeys :
            (/\ content = LocalizeOnly(key)
             /\ resolvePath(localizationData, trim(key)).t = "string") =>
                /\ Returned
                /\ NoDirective(outcome.value)

\* keys that resolve in no dictionary of the model: a segment is absent, the
\* path ends on a mapping; and keys of the dictionary without cycle whose
\* path ends on a boolean, a list and null
AbsentKeys ==
    {<<"Does", ".", "Not", ".", "Exist">>, <<"Foo">>, <<"Foo", ".", "Missing">>, <<" ", "Foo", " ">>, << >>}

NonStringKeys == {<<"Flag">>, <<"List">>, <<"Nothing">>}

\* C16: with a dictionary, @Localize[<key>] whose trimmed key does not
\* resolve is replaced by the trimmed key in bold.
C16_LocalizeFallback ==
    (Returned /\ truthy(localizationData)) =>
        \A pre \in Around :
            \A key \in AbsentKeys \cup (IF localizationData = PlainDictionary THEN NonStringKeys ELSE {}) :
                LET directive == pre \o LocalizeOnly(key)
                    bold == pre \o <<"<strong>">> \o trim(key) \o <<"</strong>">>
                IN  IsPrefix(directive, content) =>
                        /\ IsPrefix(bold, outcome.value)
                        /\ content = directive => outcome.value = bold

C16_Witness ==
    /\ Returned
    /\ localizationData = PlainDictionary
    /\ content = <<"a", " ", "@Localize[", " ", "Foo", " ", "]">>
    /\ outcome.value = <<"a", " ", "<strong>", "Foo", "</strong>">>

\* the walk as the contract words it: a step fails when the current value is
\* no keyed mapping or has no entry for the segment
RECURSIVE ContractWalk(_, _)
ContractWalk(cur, segments) ==
    IF segments = << >> THEN cur
    ELSE IF cur.t # "object" THEN Undefined
    ELSE IF Head(segments) \notin DOMAIN cur.v THEN Undefined
    ELSE ContractWalk(cur.v[Head(segments)], Tail(segments))

ContractResolve(dictionary, dottedKey) ==
    LET terminal == ContractWalk(dictionary, split(dottedKey, "."))
    IN  CASE terminal.t = "string" -> terminal
          [] terminal.t = "number" -> Str(terminal.v)
          [] OTHER -> Undefined

\* C17: resolvePath walks the key segment by segment, returns a terminal
\* string as it is and a terminal number as its decimal string, and returns
\* not-found when the current value of a step is no keyed mapping, when the
\* segment is absent, or when the terminal value is a mapping, a list, a
\* boolean or null.
C17_ResolvePathContract ==
    outcome.kind = "resolvePath" =>
        outcome.value = ContractResolve(localizationData, content)

Localized == outcome.kind = "localize"

\* C18: with a dictionary, localize returns the key itself whenever the key
\* does not resolve, not the capitalised last segment.
C18_LocalizeReturnsKey ==
    (Localized /\ localizationData # Null /\ resolvePath(localizationData, content) = Undefined) =>
        outcome.value = Str(content)

C18_Witness ==
    /\ Localized
    /\ localizationData = PlainDictionary
    /\ content = <<"Does", ".", "Not", ".", "Exist">>
    /\ outcome.replacements = Undefined
    /\ outcome.value = Str(<<"Does", ".", "Not", ".", "Exist">>)

Dots(key) == {i \in 1..Len(key) : key[i] = "."}

Max(S) == CHOOSE x \in S : \A y \in S : x >= y

LastSegment(key) == From(key, Max(Dots(key)) + 1)

\* C19: without a dictionary, localize returns the last dot-separated segment
\* of the key with its first character in upper case, and a key without dot
\* unchanged.
C19_LocalizeWithoutDictionary ==
    (Localized /\ localizationData = Null) =>
        outcome.value =
            Str(IF Dots(content) = {} THEN content
                ELSE IF LastSegment(content) = << >> THEN << >>
                ELSE <<UpperFirstTok(LastSegment(content)[1])>> \o Tail(LastSegment(content)))

C19_Witness ==
    /\ Localized
    /\ localizationData = Null
    /\ content = <<"foo", ".", "bar">>
    /\ outcome.value = Str(<<"Bar">>)

\* one pass over the string: every {name} of an entry becomes the entry's
\* value as a string, and what was inserted is not read again
RECURSIVE SinglePass(_, _)
SinglePass(text, entries) ==
    IF text = << >> THEN << >>
    ELSE LET hits == {n \in 1..Len(entries) :
                         IsPrefix(<<"{">> \o entries[n][1] \o <<"}">>, text)}
         IN  IF hits = {} THEN <<Head(text)>> \o SinglePass(Tail(text), entries)
             ELSE LET n == Min(hits)
                  IN  entries[n][2].v \o SinglePass(From(text, Len(entries[n][1]) + 3), entries)

\* C20: the replacements of localize put the value, as a string, in the place
\* of every {name}; what is inserted is never read for placeholders again; and
\* for distinct names every order of the replacements gives the same result.
C20_PlaceholderSubstitution ==
    (/\ Localized
     /\ localizationData # Null
     /\ truthy(resolvePath(localizationData, content))
     /\ outcome.replacements # Undefined) =>
        LET translation == resolvePath(localizationData, content).v
            entries == outcome.replacements.v
        IN  /\ outcome.value = Str(SinglePass(translation, entries))
            /\ \A p \in Permutations(1..Len(entries)) :
                  substitute(translation, [i \in 1..Len(entries) |-> entries[p[i]]])
                      = outcome.value.v

\* processFoundryTags as a function of its three arguments alone: the stages
\* after Localize, the Localize stage from a position of the text, and the
\* call; depth bounds the nesting of calls
laterStages(text, ids, data) ==
    LET set == setOf(ids)
        compendium == replaceAll("Compendium", text, set, data)
        page == replaceAll("UUIDPage", compendium, set, data)
        actor == replaceAll("UUIDActor", page, set, data)
        item == replaceAll("UUIDItem", actor, set, data)
        other == replaceAll("UUIDOther", item, set, data)
        trait == replaceAll("Trait", other, set, data)
        condition == replaceAll("Condition", trait, set, data)
    IN  parseAndReplace(parseAndReplace(condition, "Damage"), "Check")

RECURSIVE localizeFrom(_, _, _, _, _)
localizeFrom(text, from, ids, data, depth) ==
    LET m == NextMatch("Localize", text, from)
        translation == resolvePath(data, trim(m.g1))
    IN  IF ~m.ok THEN From(text, from)
        ELSE Sub(text, from, m.s - 1)
                 \o (IF translation = Undefined THEN <<"<strong>">> \o trim(m.g1) \o <<"</strong>">>
                     ELSE IF translation.v = << >> \/ depth = 0 THEN << >>
                     ELSE laterStages(localizeFrom(translation.v, 1, ids, data, depth - 1),
                                      ids, data))
                 \o localizeFrom(text, m.e + 1, ids, data, depth)

Transformed(text, ids, data) ==
    IF text = << >> THEN << >>
    ELSE laterStages(IF truthy(data) THEN localizeFrom(text, 1, ids, data, StackLimit) ELSE text,
                     ids, data)

StageOrder ==
    {<<"Localize", "Compendium">>, <<"Compendium", "NewSet">>, <<"NewSet", "UUIDPage">>,
     <<"UUIDPage", "UUIDActor">>, <<"UUIDActor", "UUIDItem">>, <<"UUIDItem", "UUIDOther">>,
     <<"UUIDOther", "Trait">>, <<"Trait", "Condition">>, <<"Condition", "Damage">>,
     <<"Damage", "DamageLoop">>, <<"DamageLoop", "Check">>, <<"Check", "CheckLoop">>,
     <<"CheckLoop", "Return">>}

\* a label that is itself a directive of a later stage
LaterDirectives ==
    {[label |-> <<"@Damage[", "a", "]">>, rewritten |-> <<"<strong>", "a", "</strong>">>],
     [label |-> <<"@Check[", "reflex", "|", "15", "]">>,
      rewritten |-> <<"<strong>", "Reflex", "_DC", "15", "</strong>">>]}

\* C22: the stages run in the order Localize, Compendium, page, actor, item,
\* other cross-reference, Trait, Condition, Damage, Check, each over the whole
\* current string: a Compendium or Condition label that is an @Damage or
\* @Check directive is rewritten by the later stage.
C22_StageOrder ==
    /\ [][(stack # << >> /\ Len(stack') = Len(stack) /\ Top'.pc # Top.pc) =>
            <<Top.pc, Top'.pc>> \in StageOrder]_vars
    /\ [](Returned =>
            \A d \in LaterDirectives, post \in Around :
                /\ content = <<"@Compendium[", "x", "]", "{">> \o d.label \o <<"}">> \o post =>
                       outcome.value = d.rewritten \o post
                /\ content = <<"@Condition[", "x", "]", "{">> \o d.label \o <<"}">> \o post =>
                       outcome.value = <<"<em>">> \o d.rewritten \o <<"</em>">> \o post)

C22_Witness ==
    /\ Returned
    /\ content = <<"@Compendium[", "x", "]", "{", "@Check[", "reflex", "|", "15", "]", "}">>
    /\ outcome.value = <<"<strong>", "Reflex", "_DC", "15", "</strong>">>

\* the parts of a slug between its separators '-' and '_'
SlugParts(slug) == split([i \in 1..Len(slug) |-> IF slug[i] = "_" THEN "-" ELSE slug[i]], "-")

RECURSIVE PascalCase(_)
PascalCase(parts) ==
    IF parts = << >> THEN << >>
    ELSE (IF Head(parts) = << >> THEN << >>
          ELSE <<UpperFirstTok(Head(parts)[1])>> \o Tail(Head(parts)))
             \o PascalCase(Tail(parts))

\* C23: slugToPascalCase turns a kebab-case or snake_case slug into
\* PascalCase: every part between the separators '-' and '_' gets its first
\* character in upper case and the separators are removed.
C23_SlugToPascalCase ==
    outcome.kind = "slugToPascalCase" =>
        outcome.value = Str(PascalCase(SlugParts(content)))

\* C24: without a dictionary the Localize stage does not run: no nested call
\* is made, the text reaches the next stage as it was given, and every
\* @Localize[...] is in the output as written.
C24_NoDictionaryNoLocalize ==
    localizationData = Null =>
        /\ Len(stack) <= 1
        /\ (stack # << >> /\ Top.pc = "Compendium") => Top.result = content
        /\ (Returned /\ content \in LocalizeTexts) => outcome.value = content

C24_Witness ==
    /\ Returned
    /\ localizationData = Null
    /\ content = <<"a", " ", "@Localize[", "Foo", ".", "Bar", "]", " ", "@Localize[", "Foo", ".", "Bar", "]">>
    /\ outcome.value = content

\* brace groups that are closed, after optional whitespace, and ones that are not
ClosedLabels == {<<"{", "L1", "}">>, <<" ", "{", "L1", "}">>, <<"{", "L1", "{", "x", "}", "}">>}

OpenLabels == {<<"{", "L1">>, <<" ", "{", "L1">>}

\* C25: a terminated @Damage[<content>] followed, after optional whitespace,
\* by a brace-balanced {label} takes the label with it: the output holds
\* <content> in bold and neither the whitespace nor the label; when the brace
\* group is not closed, nothing after the closing bracket is removed.
C25_DamageLabelConsumed ==
    Returned =>
        \A pre \in Around :
            IsPrefix(pre \o <<"@Damage[">>, content) =>
                \A e \in (Len(pre) + 2)..Len(content) :
                    LET arg == Sub(content, Len(pre) + 2, e - 1)
                        suffix == From(content, e + 1)
                    IN  (content[e] = "]" /\ arg \in Arguments /\ Balanced(arg)) =>
                            /\ suffix \in ClosedLabels => outcome.value = pre \o Bold(arg)
                            /\ suffix \in OpenLabels => outcome.value = pre \o Bold(arg) \o suffix

C25_Witness ==
    /\ Returned
    /\ content = <<"a", " ", "@Damage[", "a", "[", "]", "]", " ", "{", "L1", "}">>
    /\ outcome.value = <<"a", " ", "<strong>", "a", "[", "]", "</strong>">>

\* the keys whose value in the dictionary is the empty string
EmptyKeys == {key \in LocalizeKeys : resolvePath(localizationData, trim(key)) = Str(<< >>)}

\* C26: the Localize stage treats a dictionary value that is the empty string
\* as found: @Localize[<key>] for such a key is replaced by empty text, not by
\* the bold key, whereas localize(dictionary, key) for the same key returns
\* the key.
C26_EmptyTranslation ==
    (Returned /\ truthy(localizationData)) =>
        \A pre \in Around, key \in EmptyKeys :
            content = pre \o LocalizeOnly(key) =>
                /\ outcome.value = pre
                /\ outcome.value # pre \o strong(trim(key))
                /\ localize(localizationData, trim(key)) = trim(key)

C26_Witness ==
    /\ Returned
    /\ localizationData = PlainDictionary
    /\ content = <<"a", " ", "@Localize[", "Empty", "]">>
    /\ outcome.value = <<"a", " ">>

C28_CloseTabNeighbour ==
    [][\A id \in TabIds(openTabs) :
          handleCloseTab(id) =>
             LET index == Min({i \in 1..Len(openTabs) : openTabs[i].id = id})
                 wasLast == \A i \in index..Len(openTabs) : openTabs[i].id = id
             IN  IF activeTabId # id THEN activeTabId' = activeTabId
                 ELSE IF openTabs' = << >> THEN activeTabId' = NullId
                 ELSE IF wasLast THEN activeTabId' = openTabs[index - 1].id
                 ELSE /\ activeTabId' = openTabs'[index].id
                      /\ \E i \in (index + 1)..Len(openTabs) :
                            /\ openTabs[i].id = activeTabId'
                            /\ \A k \in index..(i - 1) : openTabs[k].id = id]_vars

\* the middle one of the tabs of three items was closed
C28_Witness ==
    /\ journals = <<101>> /\ actors = <<103>> /\ items = <<1>>
    /\ openTabs = <<[id |-> 101, type |-> "journal"], [id |-> 1, type |-> "item"]>>
    /\ activeTabId = 1
    /\ Rendered

\* the places of an id in the itemIds of the folders
Places(folders, id) ==
    {<<i, k>> \in (1..Len(folders)) \X (1..3) :
        k <= Len(folders[i].itemIds) /\ folders[i].itemIds[k] = id}

Filed(folders) == UNION {Ids(folders[i].itemIds) : i \in 1..Len(folders)}

AtMostOnce(folders) == \A id \in Filed(folders) : Cardinality(Places(folders, id)) = 1

\* C29: after any sequence of folder creations, drops onto a folder, drops
\* onto the root and folder or item deletions, every item id is in the
\* itemIds of at most one folder and at most once; a drop onto the root
\* leaves the item in no folder; deleting a folder removes no item from the
\* item list.
C29_FolderMembership ==
    /\ [](\A type \in Types : AtMostOnce(listFolders(type)))
    /\ [][\A type \in Types :
             handleDrop(NullId, type) =>
                draggedId(type) \notin Filed(IF type = "journal" THEN journalFolders'
                                             ELSE IF type = "actor" THEN actorFolders'
                                             ELSE itemFolders')]_vars
    /\ [][\A type \in Types : \A i \in 1..Len(listFolders(type)) :
             handleDeleteFolder(listFolders(type)[i].id, type) =>
                journals' = journals /\ actors' = actors /\ items' = items]_vars

\* the journal of the world file was moved from its folder to a new one
C29_Witness ==
    /\ journals = <<101>>
    /\ journalFolders = <<[id |-> 102, itemIds |-> << >>], [id |-> 1, itemIds |-> <<101>>]>>

\* C30: the list of open tabs never holds two tabs with the same id, after
\* any sequence of handleOpenItem calls, two calls for the same item before
\* the component re-renders included.
C30_NoDuplicateTabs ==
    \A i, j \in 1..Len(openTabs) : openTabs[i].id = openTabs[j].id => i = j

====
